---- MODULE Spec2Model ----
(***************************************************************************)
(* SEBS builder: the state map (dirty analysis, action readiness), the     *)
(* scheduler (add_artifact / add_action / build with N worker threads      *)
(* under one lock) and the action runner's effect on the directory.        *)
(***************************************************************************)
EXTENDS Integers, Sequences, FiniteSets, TLC

\* ------------------------------------------------------------------ bounds
\* Initial modification times of derived files are drawn from 1..MaxTime.
MaxTime == 3
\* Number of distinct artifacts requested before the build starts.
MaxRequests == 2
\* Number of threads running Builder.build (main.py: -jN).
NumWorkers == 2
\* Number of calls of CachingRunner.run.
MaxRuns == 3
\* Number of changes to the files, the environment and the disk between them.
MaxChanges == 2
\* The calls made on the directories.
MaxCalls == 2
\* The calls made on one command context.
MaxContextCalls == 4

\* ------------------------------------------------------- program constants
\* builder.py:314  "self.timestamp + 1 < input_state.timestamp"
Grace == 1
\* builder.py:285  timestamp of a derived artifact that does not exist
Missing == -1
\* builder.py:233  __reset_mtime touches failed outputs with mtime 0
ResetTime == 0

None == "none"
Workers == 1..NumWorkers
Times == 1..MaxTime
\* A source file is missing or was edited last.
SourceTimes == {MaxTime}
\* Every write of the build happens after every initial mtime, beyond the
\* grace.
Now == MaxTime + Grace + 1

Range(s) == {s[i] : i \in 1..Len(s)}

\* ------------------------------------------------------- the build graph
\* A source file, an action with two outputs, a consumer of one of them, and
\* a conditional action whose inputs and outputs are only known once its
\* condition artifact is clean:
\*   in --A--> t, t2      t --C--> c_out      if t: c_out --D--> d_out
\* and a consumer of the conditional action's output:
\*   d_out --F--> f_out
Artifacts == {"in", "t", "t2", "c_out", "d_out", "f_out"}
Actions == {"A", "C", "D", "F"}

\* The artifacts asked for on the command line when the consumer F is left
\* out of the build.
Targets == Artifacts \ {"f_out"}

\* Artifact.action: the action that creates the file, None for a source file.
ArtifactAction(a) ==
  CASE a = "in" -> None
    [] a \in {"t", "t2"} -> "A"
    [] a = "c_out" -> "C"
    [] a = "d_out" -> "D"
    [] a = "f_out" -> "F"

NoCommand == [kind |-> "none"]

\* SubprocessCommand: the artifacts of its arguments; those generated by its
\* own action are outputs, the rest are inputs.
SubprocessCommand(ins, outs) == [kind |-> "subprocess", inputs |-> ins, outputs |-> outs]

\* ConditionalCommand(condition_artifact, true_command, false_command)
ConditionalCommand(c, tc, fc) ==
  [kind |-> "conditional", condition_artifact |-> c,
   true_command |-> tc, false_command |-> fc]

\* DoAllCommand(subcommands)
DoAllCommand(subcommands) == [kind |-> "do_all", subcommands |-> subcommands]

\* EnvironmentCommand.__default: None, a string or an artifact.
NoDefault == [kind |-> "none", value |-> None]

\* EnvironmentCommand(env_name, output_artifact), default = None
EnvironmentCommand(env_name, out) ==
  [kind |-> "environment", env_name |-> env_name, output_artifact |-> out,
   default |-> NoDefault]

\* Action.command.  S, E and K are the actions handed to the runners when
\* these are exercised on their own:
\*   i --S--> o1, o2      $V --E--> eo      if i: K --> k1  else: K --> k2
\*   N: nothing to do, no artifact
ActionCommand(x) ==
  CASE x = "A" -> SubprocessCommand(<<"in">>, <<"t", "t2">>)
    [] x = "C" -> SubprocessCommand(<<"t">>, <<"c_out">>)
    [] x = "D" -> ConditionalCommand("t",
                     SubprocessCommand(<<"c_out">>, <<"d_out">>), NoCommand)
    [] x = "F" -> SubprocessCommand(<<"d_out">>, <<"f_out">>)
    [] x = "S" -> SubprocessCommand(<<"i">>, <<"o1", "o2">>)
    [] x = "E" -> EnvironmentCommand("V", "eo")
    [] x = "K" -> ConditionalCommand("i",
                     SubprocessCommand(<<>>, <<"k1">>),
                     SubprocessCommand(<<>>, <<"k2">>))
    [] x = "N" -> DoAllCommand(<<>>)

\* The values a condition artifact is expected to hold.
Contents == {"true", "false"}

\* --------------------------------------------------------------- state map
\* _StateMap: artifact -> _ArtifactState, action -> _ActionState, both created
\* on first use ("known").
NoArtifactState == [known |-> FALSE, timestamp |-> Missing, is_dirty |-> FALSE]

\* _ActionState.__init__ before update_readiness
NewActionState ==
  [known |-> FALSE, is_pending |-> FALSE, is_ready |-> FALSE,
   inputs |-> <<>>, outputs |-> <<>>, blocking |-> {}, blocked |-> {}]

EmptyStateMap ==
  [art |-> [a \in Artifacts |-> NoArtifactState],
   act |-> [x \in Actions |-> NewActionState]]

\* Variants of the timestamp comparison: one that flags an input exactly one
\* second newer, one that never flags an input.
InputIsNewerWithoutGrace(timestamp, input_timestamp) == timestamp < input_timestamp

InputIsNeverNewer(timestamp, input_timestamp) == FALSE

\* The comparison of an output's timestamp with one input's timestamp.
InputIsNewer(timestamp, input_timestamp) == timestamp + Grace < input_timestamp

\* A variant of the definition comparison that applies the input grace.
DefinitionIsNewerBeyondGrace(timestamp, context_timestamp) ==
  timestamp + Grace < context_timestamp

\* The comparison with the build definition file's timestamp.
DefinitionIsNewer(timestamp, context_timestamp) == timestamp < context_timestamp

\* The loop over action_state.inputs of _ArtifactState.__init__.  The states
\* of the inputs of a ready action exist already: update_readiness created
\* them before it set is_ready.
SomeInputDirtyOrNewer(sm, timestamp, inputs) ==
  \E i \in 1..Len(inputs) :
     \/ sm.art[inputs[i]].is_dirty
     \/ InputIsNewer(timestamp, sm.art[inputs[i]].timestamp)

RECURSIVE artifact_state(_, _, _)
RECURSIVE action_state(_, _, _)
RECURSIVE update_readiness(_, _, _, _)
RECURSIVE enumerate_artifacts(_, _, _)
RECURSIVE ScanInputs(_, _, _, _, _, _)

\* Results of the state map's operations carry the map as it is afterwards
\* (sm) and whether a DefinitionError was raised (err).
Ok(sm) == [sm |-> sm, err |-> FALSE]
Raised(sm) == [sm |-> sm, err |-> TRUE]

\* ConditionalCommand.enumerate_artifacts: the branch chosen for the value
\* that enumerator.read() returned.
ConditionalBranch(cmd, value) ==
  IF value = "true" THEN cmd.true_command
  ELSE IF value = "false" /\ cmd.false_command.kind # "none"
       THEN cmd.false_command
       ELSE NoCommand

\* _ArtifactEnumeratorImpl.read: the content of artifact c, or None if c is
\* dirty; r is the result of artifact_state for c.
EnumeratorRead(r, dir, c) ==
  IF r.sm.art[c].is_dirty THEN None ELSE dir.content[c]

\* The rest of ConditionalCommand.enumerate_artifacts once the branch has
\* been enumerated (e); the condition artifact is the first input.
ConditionalEnumerated(c, e) ==
  [sm |-> e.sm, err |-> e.err, inputs |-> <<c>> \o e.inputs, outputs |-> e.outputs]

\* ConditionalCommand.enumerate_artifacts after enumerator.read() has
\* computed the condition artifact's state (r).
ConditionalRead(r, dir, cmd) ==
  IF r.err
  THEN [sm |-> r.sm, err |-> TRUE,
        inputs |-> <<cmd.condition_artifact>>, outputs |-> <<>>]
  ELSE ConditionalEnumerated(cmd.condition_artifact,
         enumerate_artifacts(r.sm, dir,
           ConditionalBranch(cmd, EnumeratorRead(r, dir, cmd.condition_artifact))))

\* command.enumerate_artifacts(enumerator) with _ArtifactEnumeratorImpl.
\* dir is the directory: [mtime, content, sebs_mtime, context_timestamp].
\* Result: [sm, err, inputs, outputs].
enumerate_artifacts(sm, dir, cmd) ==
  IF cmd.kind = "subprocess"
  THEN [sm |-> sm, err |-> FALSE, inputs |-> cmd.inputs, outputs |-> cmd.outputs]
  ELSE IF cmd.kind = "conditional"
  THEN ConditionalRead(artifact_state(sm, dir, cmd.condition_artifact), dir, cmd)
  ELSE [sm |-> sm, err |-> FALSE, inputs |-> <<>>, outputs |-> <<>>]

\* A variant of update_readiness without the test that the ready producer
\* lists the input among its outputs.
ScanBlockerUnchecked(r2, dir, x, inputs, k, blocking, y) ==
  IF r2.err
  THEN [sm |-> r2.sm, err |-> TRUE, blocking |-> blocking]
  ELSE ScanInputs([r2.sm EXCEPT !.act[y].blocked = @ \cup {x}],
                  dir, x, inputs, k + 1, blocking \cup {y})

\* update_readiness, input is dirty and r2 is the result of
\* action_state(input.action): the DefinitionError test, then
\* blocking_state.blocked.add(self.action); self.blocking.add(input.action).
ScanBlocker(r2, dir, x, inputs, k, blocking, y) ==
  IF r2.err
  THEN [sm |-> r2.sm, err |-> TRUE, blocking |-> blocking]
  ELSE IF r2.sm.act[y].is_ready /\ inputs[k] \notin Range(r2.sm.act[y].outputs)
  THEN \* "%s is needed, but %s didn't generate it."
       [sm |-> r2.sm, err |-> TRUE, blocking |-> blocking]
  ELSE ScanInputs([r2.sm EXCEPT !.act[y].blocked = @ \cup {x}],
                  dir, x, inputs, k + 1, blocking \cup {y})

\* A variant of update_readiness in which no input blocks the action.
ScanInputUnblocked(r, dir, x, inputs, k, blocking) ==
  IF r.err THEN [sm |-> r.sm, err |-> TRUE, blocking |-> blocking]
  ELSE ScanInputs(r.sm, dir, x, inputs, k + 1, blocking)

\* update_readiness, one input; r is the result of artifact_state(input).
ScanInput(r, dir, x, inputs, k, blocking) ==
  IF r.err THEN [sm |-> r.sm, err |-> TRUE, blocking |-> blocking]
  ELSE IF ~r.sm.art[inputs[k]].is_dirty
  THEN ScanInputs(r.sm, dir, x, inputs, k + 1, blocking)
  ELSE \* Input is dirty, therefore it must have an action.
       ScanBlocker(action_state(r.sm, dir, ArtifactAction(inputs[k])),
                   dir, x, inputs, k, blocking, ArtifactAction(inputs[k]))

\* The loop "for input in enumerator.inputs" of update_readiness for action x,
\* from position k on.  Result: [sm, err, blocking].
ScanInputs(sm, dir, x, inputs, k, blocking) ==
  IF k > Len(inputs)
  THEN [sm |-> sm, err |-> FALSE, blocking |-> blocking]
  ELSE ScanInput(artifact_state(sm, dir, inputs[k]), dir, x, inputs, k, blocking)

\* The end of update_readiness; e is the enumeration, b the scan of its
\* inputs.
ReadinessScanned(self, e, b) ==
  IF b.err
  THEN [sm |-> b.sm, err |-> TRUE, self |-> self, became_ready |-> FALSE]
  ELSE IF b.blocking # {}
  THEN \* At least one input is still dirty.
       [sm |-> b.sm, err |-> FALSE,
        self |-> [self EXCEPT !.blocking = b.blocking],
        became_ready |-> FALSE]
  ELSE [sm |-> b.sm, err |-> FALSE,
        self |-> [self EXCEPT !.blocking = {}, !.is_ready = TRUE,
                              !.inputs = e.inputs, !.outputs = e.outputs],
        became_ready |-> TRUE]

\* update_readiness after the command has enumerated its artifacts (e).
ReadinessEnumerated(dir, x, self, e) ==
  IF e.err
  THEN [sm |-> e.sm, err |-> TRUE, self |-> self, became_ready |-> FALSE]
  ELSE ReadinessScanned(self, e, ScanInputs(e.sm, dir, x, e.inputs, 1, {}))

\* _ActionState.update_readiness on the state `self` of action x.
\* Result: [sm, err, self, became_ready].
update_readiness(sm, dir, x, self) ==
  IF self.is_ready
  THEN \* Already ready.  No change is possible.
       [sm |-> sm, err |-> FALSE, self |-> self, became_ready |-> FALSE]
  ELSE ReadinessEnumerated(dir, x, self,
                           enumerate_artifacts(sm, dir, ActionCommand(x)))

\* _StateMap.action_state stores the state the constructor produced (u).
\* While the constructor ran the state was not in the map; what other
\* actions added to its blocked set meanwhile is kept.
StoreActionState(x, u) ==
  IF u.err
  THEN Raised(u.sm)
  ELSE Ok([u.sm EXCEPT !.act[x] =
             [u.self EXCEPT !.known = TRUE, !.blocked = u.sm.act[x].blocked]])

\* _StateMap.action_state: the state of action x, constructed on first use.
\* Result: [sm, err].
action_state(sm, dir, x) ==
  IF sm.act[x].known
  THEN Ok(sm)
  ELSE StoreActionState(x, update_readiness(sm, dir, x, NewActionState))

\* _ArtifactState.__init__: is_dirty of an existing derived artifact whose
\* producing action has the state action_state_.
ArtifactIsDirty(sm, dir, a, timestamp, action_state_) ==
  \/ IF action_state_.is_ready
     THEN IF a \notin Range(action_state_.outputs)
          THEN TRUE
          ELSE SomeInputDirtyOrNewer(sm, timestamp, action_state_.inputs)
     ELSE TRUE
  \/ DefinitionIsNewer(timestamp, dir.context_timestamp)

\* _ArtifactState.__init__ of an existing derived artifact after
\* state_map.action_state(artifact.action) returned r.
DerivedArtifactState(r, dir, a) ==
  IF r.err
  THEN r
  ELSE Ok([r.sm EXCEPT !.art[a] =
             [known |-> TRUE, timestamp |-> dir.mtime[a],
              is_dirty |-> ArtifactIsDirty(r.sm, dir, a, dir.mtime[a],
                                           r.sm.act[ArtifactAction(a)])]])

\* A variant in which a missing source file is taken for an up-to-date one.
MissingSourceIgnored(sm, a) ==
  Ok([sm EXCEPT !.art[a] =
        [known |-> TRUE, timestamp |-> Missing, is_dirty |-> FALSE]])

\* _ArtifactState.__init__ for a source file that getmtime does not find:
\* DefinitionError, "does not exist" or "is not accessible".
MissingSource(sm, a) == Raised(sm)

\* _StateMap.artifact_state: the state of artifact a, constructed on first
\* use.  err is the DefinitionError for a missing source file.
\* Result: [sm, err].
artifact_state(sm, dir, a) ==
  IF sm.art[a].known
  THEN Ok(sm)
  ELSE IF dir.mtime[a] = Missing
  THEN IF ArtifactAction(a) # None
       THEN \* Derived artifact doesn't exist yet.
            Ok([sm EXCEPT !.art[a] =
                  [known |-> TRUE, timestamp |-> Missing, is_dirty |-> TRUE]])
       ELSE MissingSource(sm, a)
  ELSE IF ArtifactAction(a) = None
  THEN Ok([sm EXCEPT !.art[a] =
             [known |-> TRUE, timestamp |-> dir.mtime[a], is_dirty |-> FALSE]])
  ELSE DerivedArtifactState(action_state(sm, dir, ArtifactAction(a)), dir, a)

\* ---------------------------------------------------------------- Builder
\* The Builder's fields as one record b:
\*   [sm, action_queue, num_pending, err], err = a DefinitionError was raised.

\* A variant of add_action that does not test is_pending.
NeverAlreadyPending(action_state_) == FALSE

\* add_action's test "if action_state.is_pending: return".
AlreadyPending(action_state_) == action_state_.is_pending

RECURSIVE add_action(_, _, _)
RECURSIVE AddBlockers(_, _, _)

\* add_action: "action_state.is_pending = True; num_pending += 1".
MarkPending(b, sm, x) ==
  [b EXCEPT !.sm = [sm EXCEPT !.act[x].is_pending = TRUE], !.num_pending = @ + 1]

\* add_action once the action is marked pending (b).
QueueOrAddBlockers(b, dir, x) ==
  IF b.sm.act[x].is_ready
  THEN [b EXCEPT !.action_queue = Append(@, x)]
  ELSE AddBlockers(b, dir, b.sm.act[x].blocking)

\* add_action after state_map.action_state(action) returned r.
AddActionState(b, dir, x, r) ==
  IF r.err THEN [b EXCEPT !.sm = r.sm, !.err = TRUE]
  ELSE IF AlreadyPending(r.sm.act[x]) THEN [b EXCEPT !.sm = r.sm]
  ELSE QueueOrAddBlockers(MarkPending(b, r.sm, x), dir, x)

\* Builder.add_action
add_action(b, dir, x) == AddActionState(b, dir, x, action_state(b.sm, dir, x))

\* An element of a non-empty set of actions: the next one a loop over the
\* set visits.
NextOf(S) == CHOOSE y \in S : TRUE

\* "for blocker in action_state.blocking: self.add_action(blocker)".  In this
\* graph a blocking set never holds more than one action, so the set's
\* iteration order does not show.
AddBlockers(b, dir, blockers) ==
  IF blockers = {} \/ b.err
  THEN b
  ELSE AddBlockers(add_action(b, dir, NextOf(blockers)), dir,
                   blockers \ {NextOf(blockers)})

\* A variant of add_artifact that schedules the producing action of every
\* derived artifact, dirty or not.
AddArtifactStateAlways(b, dir, a, r) ==
  IF r.err THEN [b EXCEPT !.sm = r.sm, !.err = TRUE]
  ELSE IF ArtifactAction(a) = None
  THEN [b EXCEPT !.sm = r.sm]
  ELSE add_action([b EXCEPT !.sm = r.sm], dir, ArtifactAction(a))

\* add_artifact after state_map.artifact_state(artifact) returned r.
AddArtifactState(b, dir, a, r) ==
  IF r.err THEN [b EXCEPT !.sm = r.sm, !.err = TRUE]
  ELSE IF ~r.sm.art[a].is_dirty
  THEN [b EXCEPT !.sm = r.sm]   \* Source file; nothing to do.
  ELSE add_action([b EXCEPT !.sm = r.sm], dir, ArtifactAction(a))

\* Builder.add_artifact
add_artifact(b, dir, a) == AddArtifactState(b, dir, a, artifact_state(b.sm, dir, a))

\* The condition of the worker loop of Builder.build.
LoopCondition(num_pending_, failed_) == num_pending_ > 0 /\ ~failed_

RECURSIVE CommandSpawns(_, _)
\* Whether Command.run of cmd reaches SubprocessCommand.run, which releases
\* the builder's lock while the child runs (_CommandContextImpl.subprocess)
\* and whose exit status decides the result.  ConditionalCommand.run reads
\* the condition artifact and runs the chosen branch; with "false" and no
\* false_command it returns True at once.
CommandSpawns(cmd, dir) ==
  IF cmd.kind = "subprocess" THEN TRUE
  ELSE IF cmd.kind = "conditional"
  THEN IF dir.content[cmd.condition_artifact] = "true"
       THEN CommandSpawns(cmd.true_command, dir)
       ELSE CommandSpawns(cmd.false_command, dir)
  ELSE FALSE

\* A successful run leaves every output written at the current time; the
\* content of a condition artifact is whatever the command wrote.
WriteOutputs(dir, outputs, v) ==
  [dir EXCEPT
     !.mtime = [a \in Artifacts |-> IF a \in Range(outputs) THEN Now ELSE @[a]],
     !.content = [a \in DOMAIN @ |-> IF a \in Range(outputs) THEN v ELSE @[a]]]

\* SubprocessRunner.__reset_mtime: touch(filename, 0) on every output; the
\* touch of a file that does not exist raises and is ignored.
reset_mtime(dir, outputs) ==
  [dir EXCEPT
     !.mtime = [a \in Artifacts |->
                  IF a \in Range(outputs) /\ @[a] # Missing THEN ResetTime ELSE @[a]]]

RECURSIVE MarkOutputsClean(_, _, _, _)

\* A variant of the loop that sets the flag instead of clearing it.
MarkOutputDirty(r, dir, outputs, k) ==
  IF r.err THEN r
  ELSE MarkOutputsClean([r.sm EXCEPT !.art[outputs[k]].is_dirty = TRUE],
                        dir, outputs, k + 1)

\* "state_map.artifact_state(output).is_dirty = False" for the k-th output,
\* r being the result of artifact_state, then the rest of the loop.
MarkOutputClean(r, dir, outputs, k) ==
  IF r.err THEN r
  ELSE MarkOutputsClean([r.sm EXCEPT !.art[outputs[k]].is_dirty = FALSE],
                        dir, outputs, k + 1)

\* "for output in action_state.outputs:
\*    self.__state_map.artifact_state(output).is_dirty = False"
MarkOutputsClean(sm, dir, outputs, k) ==
  IF k > Len(outputs) THEN Ok(sm)
  ELSE MarkOutputClean(artifact_state(sm, dir, outputs[k]), dir, outputs, k)

RECURSIVE AddUnpendingBlockers(_, _, _)

\* A variant of build that leaves the blockers of a dependent alone.
LeaveBlocker(b, dir, y) == b

\* "if not self.__state_map.action_state(blocker).is_pending:
\*    self.add_action(blocker)"
AddIfNotPending(b, dir, y) ==
  IF ~b.sm.act[y].is_pending THEN add_action(b, dir, y) ELSE b

\* "for blocker in dependent_state.blocking: ..."
AddUnpendingBlockers(b, dir, blockers) ==
  IF blockers = {} \/ b.err
  THEN b
  ELSE AddUnpendingBlockers(AddIfNotPending(b, dir, NextOf(blockers)), dir,
                            blockers \ {NextOf(blockers)})

RECURSIVE UpdateDependents(_, _, _, _, _)

\* The body of "for dependent in action_state.blocked" for dependent d once
\* its readiness is updated; b holds the updated state map.
DependentUpdated(b, dir, order, k, newly_ready, d, became_ready) ==
  IF ~b.sm.act[d].is_pending
  THEN UpdateDependents(b, dir, order, k + 1, newly_ready)
  ELSE IF became_ready
  THEN UpdateDependents(b, dir, order, k + 1, Append(newly_ready, d))
  ELSE \* This action is still blocked on something else: add the blockers
       \* that were not known to be needed.
       UpdateDependents(AddUnpendingBlockers(b, dir, b.sm.act[d].blocking),
                        dir, order, k + 1, newly_ready)

\* dependent_state.update_readiness(...) returned u for dependent d.
DependentReadiness(b, dir, order, k, newly_ready, d, u) ==
  IF u.err
  THEN [b |-> [b EXCEPT !.sm = u.sm, !.err = TRUE], newly_ready |-> newly_ready]
  ELSE DependentUpdated(
         [b EXCEPT !.sm = [u.sm EXCEPT !.act[d] =
                             [u.self EXCEPT !.blocked = u.sm.act[d].blocked]]],
         dir, order, k, newly_ready, d, u.became_ready)

\* "for dependent in action_state.blocked", visiting the set in the order
\* `order`, from position k on.  Result: [b, newly_ready].
UpdateDependents(b, dir, order, k, newly_ready) ==
  IF k > Len(order) \/ b.err
  THEN [b |-> b, newly_ready |-> newly_ready]
  ELSE DependentReadiness(b, dir, order, k, newly_ready, order[k],
         update_readiness(b.sm, dir, order[k], b.sm.act[order[k]]))

\* A variant without newly_ready.reverse().
ExtendLeftUnreversed(d) ==
  [d.b EXCEPT !.action_queue =
     [k \in 1..Len(d.newly_ready) |-> d.newly_ready[Len(d.newly_ready) + 1 - k]]
       \o @]

\* newly_ready.reverse() followed by action_queue.extendleft(newly_ready)
\* puts the newly ready actions at the front of the queue in the order in
\* which they became ready.
ExtendLeft(d) == [d.b EXCEPT !.action_queue = d.newly_ready \o @]

\* Builder.build after the outputs were marked clean (m).
OutputsMarked(b, dir, order, m) ==
  IF m.err THEN [b EXCEPT !.sm = m.sm, !.err = TRUE]
  ELSE ExtendLeft(UpdateDependents([b EXCEPT !.sm = m.sm], dir, order, 1, <<>>))

\* The part of Builder.build after action_runner.run returned true for
\* action x.
CompleteAction(b, dir, x, order) ==
  OutputsMarked(b, dir, order, MarkOutputsClean(b.sm, dir, b.sm.act[x].outputs, 1))

\* The orders in which a set can be iterated.
Orderings(S) ==
  {s \in [1..Cardinality(S) -> S] : \A i, j \in DOMAIN s : i # j => s[i] # s[j]}

\* ------------------------------------------------------------------- state
VARIABLES
  dir,            \* root_dir: [mtime, content, sebs_mtime, context_timestamp]
  sm,             \* Builder.__state_map
  action_queue,   \* Builder.__action_queue
  num_pending,    \* Builder.__num_pending
  failed,         \* Builder.failed
  lock,           \* Builder.__lock: the worker holding it, 0 when free
  pc,             \* where each worker thread is in Builder.build: "waiting"
                  \* (in lock.acquire(), on entry or after the sleep), "loop"
                  \* (at the while), "running" (in action_runner.run), "done"
                  \* (returned), "raised" (left by an exception)
  cur,            \* the action each worker handed to the runner
  phase,          \* main.build: "adding", "building", or "error"
  requested,      \* the artifacts passed to add_artifact
  pops,           \* how often each action was popped from the queue
  finished,       \* the actions whose run returned true
  done_at_start,  \* per action, the actions finished when it was popped
  run_failed,     \* the actions whose run returned false or raised
  initial_mtime   \* the files' mtimes when the Builder was constructed

builderVars ==
  <<dir, sm, action_queue, num_pending, failed, lock, pc, cur, phase,
    requested, pops, finished, done_at_start, run_failed, initial_mtime>>

\* The runners of runner.py, exercised on their own: one CachingRunner over
\* one SubprocessRunner, called for one action at a time.
VARIABLES
  files,          \* working_dir: filename -> [mtime, content]
  disk,           \* files outside the tree: path -> content, None if absent
  environ,        \* os.environ: the value of the variable, None if unset
  cache,          \* CachingRunner.__cache: output filename -> digest or None
  temp_files,     \* _CommandContextImpl.__temp_files_for_mem
  call,           \* the call of CachingRunner.run in progress, None if none
  clock,          \* the current time
  changes,        \* the number of changes made between the calls
  last,           \* the last call of CachingRunner.run that ended
  last_exec       \* per action, how its last run by the sub-runner ended

runnerVars ==
  <<files, disk, environ, cache, temp_files, call, clock, changes, last,
    last_exec>>

\* The parts of the program exercised on their own, each in its own variable.
VARIABLES
  hasher,         \* two things to hash and the bytes fed to their hashers
  tester,         \* the tests of a builder, their results and the reports
  directories,    \* a disk and a virtual directory, a mapping, the last call
  loader,         \* a Loader: the SEBS files, what is loaded and registered
  context,        \* a _CommandContextImpl, its working_dir and temporary files
  mapping,        \* a _WorkingDirMapping, its env directory and os.environ
  rule,           \* Rules: their __expanded fields and the _expand calls
  commands        \* a ConditionalCommand and an EnvironmentCommand, their
                  \* inputs and what enumerate_artifacts or run made of them

partVars == <<context, mapping, rule, commands>>

libraryVars == <<hasher, tester, directories, loader, partVars>>

vars == <<builderVars, runnerVars, libraryVars>>

\* ----------------------------------------------------------- hashed bytes
\* A string is the sequence of its characters.
\* Python's order of strings, by which list.sort() sorts; Chars: the
\* characters that occur in names, in their order as bytes.
Before(s, t) ==
  LET Chars == <<" ", "+", "-", "a", "b", "c">>
      Ord(ch) == CHOOSE k \in 1..Len(Chars) : Chars[k] = ch
  IN \E k \in 1..(Len(s) + 1) :
       /\ k <= Len(t)
       /\ \A j \in 1..(k - 1) : s[j] = t[j]
       /\ k > Len(s) \/ Ord(s[k]) < Ord(t[k])

\* The list left as it was given.
unsorted(names) == names

RECURSIVE sorted(_)
\* names.sort()
sorted(names) ==
  IF names = <<>> THEN <<>>
  ELSE LET k == CHOOSE i \in 1..Len(names) :
                  \A j \in 1..Len(names) : ~Before(names[j], names[i])
       IN <<names[k]>>
            \o sorted(SubSeq(names, 1, k - 1) \o SubSeq(names, k + 1, Len(names)))

\* str(n) of a length
str(n) ==
  LET Digit(d) == <<"0", "1", "2", "3", "4", "5", "6", "7", "8", "9">>[d + 1]
  IN IF n < 10 THEN <<Digit(n)>> ELSE <<Digit(n \div 10), Digit(n % 10)>>

\* _hash_string_and_length: str(len(string)), " ", string
hash_string_and_length(string) == str(Len(string)) \o <<" ">> \o string

RECURSIVE hash_args(_, _)
\* SubprocessCommand.__hash_args; k = 0 before the loop, then the argument
\* the loop is at.
hash_args(args, k) ==
  IF k = 0 THEN str(Len(args)) \o <<" ">> \o hash_args(args, 1)
  ELSE IF k > Len(args) THEN <<>>
  ELSE (CASE args[k].t = "s" -> <<"s">> \o hash_string_and_length(args[k].name)
          [] args[k].t = "a" -> <<IF args[k].own THEN "o" ELSE "i">>
                                  \o hash_string_and_length(args[k].name)
          [] args[k].t = "c" -> <<"c">> \o hash_string_and_length(args[k].name)
          [] args[k].t = "l" -> <<"l">> \o hash_args(args[k].list, 0))
       \o hash_args(args, k + 1)

RECURSIVE command_hash(_)
\* Command.hash(hasher) of each variant: the bytes fed to the hasher.  The
\* name of the class is fed as one piece.
command_hash(cmd) ==
  LET RECURSIVE Each(_, _)
      Each(subcommands, k) ==
        IF k > Len(subcommands) THEN <<>>
        ELSE command_hash(subcommands[k]) \o Each(subcommands, k + 1)
      RECURSIVE All(_, _)
      All(names, k) ==
        IF k > Len(names) THEN <<>>
        ELSE hash_string_and_length(names[k]) \o All(names, k + 1)
      Captured(tag, artifact) ==
        IF artifact = <<>> THEN <<>>
        ELSE <<tag>> \o hash_string_and_length(artifact[1])
      implicit_names ==
        [k \in 1..Len(cmd.implicit) |->
           <<IF cmd.implicit[k].own THEN "+" ELSE "-">> \o cmd.implicit[k].name]
  IN CASE cmd.variant = "EchoCommand" ->
            <<"EchoCommand:">> \o hash_string_and_length(cmd.content)
              \o hash_string_and_length(cmd.output)
       [] cmd.variant = "EnvironmentCommand" ->
            <<"EnvironmentCommand:">> \o hash_string_and_length(cmd.env_name)
              \o hash_string_and_length(cmd.output)
              \o (IF cmd.default.kind = "x" THEN <<"x">>
                  ELSE <<cmd.default.kind>>
                         \o hash_string_and_length(cmd.default.value))
       [] cmd.variant = "DoAllCommand" ->
            <<"DoAllCommand:">> \o str(Len(cmd.subcommands)) \o <<" ">>
              \o Each(cmd.subcommands, 1)
       [] cmd.variant = "ConditionalCommand" ->
            <<"ConditionalCommand:">> \o hash_string_and_length(cmd.condition)
              \o Each(cmd.true_command, 1)
              \o (IF cmd.false_command = <<>> THEN <<"-">>
                  ELSE <<"+">> \o Each(cmd.false_command, 1))
       [] cmd.variant = "SubprocessCommand" ->
            <<"SubprocessCommand:">> \o hash_args(cmd.args, 0)
              \o Captured(">", cmd.capture_stdout)
              \o Captured("&", cmd.capture_stderr)
              \o Captured("?", cmd.capture_exit_status)
              \o All(sorted(implicit_names), 1)
              \o <<".">>

\* CachingRunner.__hash: the bytes fed to the hasher for an action whose
\* inputs, disk inputs and outputs are the given lists of names; the
\* content of a file is looked up by its name, in the tree or on the disk.
hash_feed(inputs, disk_inputs, outputs, cmd) ==
  LET HashedContents(name) == IF Len(name) = 1 THEN <<"c">> \o name ELSE <<>>
      RECURSIVE Each(_, _, _)
      Each(tag, names, k) ==
        IF k > Len(names) THEN <<>>
        ELSE <<tag>> \o hash_string_and_length(names[k])
               \o (IF tag = "o" THEN <<>>
                   ELSE hash_string_and_length(HashedContents(names[k])))
               \o Each(tag, names, k + 1)
  IN Each("i", sorted(inputs), 1) \o Each("d", sorted(disk_inputs), 1)
       \o Each("o", sorted(outputs), 1) \o command_hash(cmd)

\* The commands that are hashed: every variant, with fields that differ in
\* one place and fields whose concatenations are equal ("a" + "bc" and
\* "ab" + "c").
\* A command is the record of what its constructor received.  An optional
\* artifact is the sequence of no or one filename; an argument is a string
\* ("s"), an artifact ("a"), a ContentToken ("c") or a list ("l"); `own`
\* tells that the artifact's action is the command's action.
HashedCommands ==
  LET a == <<"a">>  b == <<"b">>  c == <<"c">>
      ab == <<"a", "b">>  bc == <<"b", "c">>
      NoFields ==
        [variant |-> "", content |-> <<>>, env_name |-> <<>>, output |-> <<>>,
         default |-> [kind |-> "x", value |-> <<>>], set_status |-> FALSE,
         subcommands |-> <<>>, condition |-> <<>>, true_command |-> <<>>,
         false_command |-> <<>>, args |-> <<>>, implicit |-> <<>>,
         capture_stdout |-> <<>>, capture_stderr |-> <<>>,
         capture_exit_status |-> <<>>]
      Arg(t, name, own_, list) ==
        [t |-> t, name |-> name, own |-> own_, list |-> list]
      s(name) == Arg("s", name, FALSE, <<>>)
      Echo(content, out) ==
        [NoFields EXCEPT !.variant = "EchoCommand", !.content = content,
                         !.output = out]
      Env(env_name, out, kind, value, set_status) ==
        [NoFields EXCEPT !.variant = "EnvironmentCommand",
                         !.env_name = env_name, !.output = out,
                         !.default = [kind |-> kind, value |-> value],
                         !.set_status = set_status]
      Sub(args, implicit, stdout, stderr, exit_status) ==
        [NoFields EXCEPT !.variant = "SubprocessCommand", !.args = args,
                         !.implicit = implicit, !.capture_stdout = stdout,
                         !.capture_stderr = stderr,
                         !.capture_exit_status = exit_status]
      DoAll(subcommands) ==
        [NoFields EXCEPT !.variant = "DoAllCommand",
                         !.subcommands = subcommands]
      Cond(condition, tc, fc) ==
        [NoFields EXCEPT !.variant = "ConditionalCommand",
                         !.condition = condition, !.true_command = <<tc>>,
                         !.false_command = fc]
      own(name) == Arg("a", name, TRUE, <<>>)
      other(name) == Arg("a", name, FALSE, <<>>)
  IN {Echo(content, out) : content \in {a, ab}, out \in {bc, c}}
       \cup {Env(env_name, out, "x", <<>>, FALSE) :
               env_name \in {a, ab}, out \in {bc, c}}
       \cup {Env(a, c, d[1], d[2], set_status) :
               d \in {<<"x", <<>>>>, <<"s", a>>, <<"f", a>>},
               set_status \in BOOLEAN}
       \cup {Sub(args, <<>>, <<>>, <<>>, <<>>) :
               args \in {<<s(a)>>, <<s(a), s(b)>>, <<s(ab)>>,
                         <<Arg("l", <<>>, FALSE, <<s(a), s(b)>>)>>,
                         <<own(a)>>, <<other(a)>>,
                         <<Arg("c", a, FALSE, <<>>)>>}}
       \cup {Sub(<<s(a)>>, <<>>, o[1], o[2], o[3]) :
               o \in {<<<<b>>, <<>>, <<>>>>, <<<<>>, <<b>>, <<>>>>,
                      <<<<>>, <<>>, <<b>>>>, <<<<b>>, <<b>>, <<>>>>}}
       \cup {Sub(<<s(a)>>, implicit, <<>>, <<>>, <<>>) :
               implicit \in {<<own(b)>>, <<other(b)>>, <<own(b), other(c)>>,
                             <<other(c), own(b)>>, <<other(c), other(b)>>}}
       \cup {DoAll(<<>>), DoAll(<<Echo(a, c)>>),
             DoAll(<<Echo(a, c), Echo(ab, c)>>)}
       \cup {Cond(a, Echo(a, c), <<>>), Cond(a, Echo(a, c), <<Echo(ab, c)>>),
             Cond(a, DoAll(<<>>), <<>>)}

\* s and t hold the same elements, in any order.
IsPermutation(s, t) ==
  /\ Len(s) = Len(t)
  /\ \E p \in [1..Len(s) -> 1..Len(s)] :
       /\ \A i, j \in 1..Len(s) : p[i] = p[j] => i = j
       /\ \A i \in 1..Len(s) : t[i] = s[p[i]]

\* What is hashed: two commands, or an action with its lists and the same
\* action with the lists in another order.
HashTasks ==
  LET a == <<"a">>  b == <<"b">>  c == <<"c">>
      ab == <<"a", "b">>  bc == <<"b", "c">>
      Only(cmd) == [inputs |-> <<>>, disk_inputs |-> <<>>, outputs |-> <<>>,
                    cmd |-> cmd]
      Reordered(r) ==
        {q \in [inputs : [1..Len(r.inputs) -> Range(r.inputs)],
                disk_inputs : [1..Len(r.disk_inputs) -> Range(r.disk_inputs)],
                outputs : [1..Len(r.outputs) -> Range(r.outputs)],
                cmd : {[r.cmd EXCEPT !.implicit = l] :
                         l \in [1..Len(r.cmd.implicit) -> Range(r.cmd.implicit)]}] :
           /\ IsPermutation(r.inputs, q.inputs)
           /\ IsPermutation(r.disk_inputs, q.disk_inputs)
           /\ IsPermutation(r.outputs, q.outputs)
           /\ IsPermutation(r.cmd.implicit, q.cmd.implicit)}
      Requests ==
        [inputs : {<<a, b>>, <<ab, a, b>>}, disk_inputs : {<<>>, <<b, a>>},
         outputs : {<<c>>, <<c, bc>>},
         cmd : {cmd \in HashedCommands : Len(cmd.implicit) # 1}]
  IN {[first |-> Only(c1), second |-> Only(c2), by |-> "", fed |-> <<>>] :
        c1, c2 \in HashedCommands}
       \cup UNION {{[first |-> r, second |-> q, by |-> "", fed |-> <<>>] :
                     q \in Reordered(r)} : r \in Requests}

NoHasher ==
  [first |-> <<>>, second |-> <<>>, by |-> "idle", fed |-> <<>>]

\* ------------------------------------------------------------ test results
\* The tests that can be registered, by name, and what a result artifact
\* can contain.
TestNames == {<<"a">>, <<"b">>, <<"c">>}
ResultContents == {"true", "false", "true\n"}

\* SubprocessRunner.run, after the command succeeded on a test action
PassFail(result) == IF result = "true" THEN "PASS: " ELSE "FAIL: "

\* print_test_results, the message of one test: the indicator and, after
\* it, the filename of the test's output artifact or nothing.
TestMessageByFalse(name, result, cached) ==
  [name |-> name, result |-> result,
   indicator |-> [text |-> IF result # "false" THEN "PASSED" ELSE "FAILED",
                  suffix |-> IF cached THEN " (cached)" ELSE ""],
   more |-> IF result = "false" THEN <<"o">> \o name ELSE <<>>]
TestMessage(name, result, cached) ==
  [name |-> name, result |-> result,
   indicator |-> [text |-> IF result = "true" THEN "PASSED" ELSE "FAILED",
                  suffix |-> IF cached THEN " (cached)" ELSE ""],
   more |-> IF result = "false" THEN <<"o">> \o name ELSE <<>>]

NoTester ==
  [is_dirty |-> [n \in TestNames |-> FALSE],
   result |-> [n \in TestNames |-> "true"],
   registered_dirty |-> [n \in TestNames |-> FALSE],
   tests |-> <<>>, finished |-> <<>>, console |-> <<>>,
   printed |-> FALSE, returned |-> FALSE]

\* ------------------------------------------------------------ directories
\* What a directory holds under a filename: a file with its mtime and
\* content, a directory (its mtime is kept on disk only), or nothing.
Filenames == {"foo", "bar", "sub"}
NoEntry == [is |-> "nothing", mtime |-> Missing, content |-> None]
Entries ==
  {NoEntry}
    \cup [is : {"file"}, mtime : {1, MaxTime}, content : {"Hello", "world"}]
    \cup [is : {"dir"}, mtime : {1}, content : {None}]

\* The argument mtime=None of touch.
NoTime == Missing

\* A call's outcome: os.error raised or a value returned, and the
\* directories afterwards.
Outcome(raised, value, d) == [raised |-> raised, value |-> value, d |-> d]

\* A variant of touch that takes every false value of mtime for None.
touch_unless_zero(d, kind, filename, mtime) ==
  LET t == IF mtime = NoTime \/ mtime = 0 THEN Now ELSE mtime
      which == IF kind = "mapped" THEN d.mapping[filename].directory ELSE kind
      name == IF kind = "mapped" THEN d.mapping[filename].name ELSE filename
  IN  IF d[which][name].is = "nothing"
         \/ (which = "virtual" /\ d[which][name].is # "file")
      THEN Outcome(TRUE, 0, d)
      ELSE Outcome(FALSE, 0, [d EXCEPT ![which][name].mtime = t])

\* DiskDirectory.touch (os.utime raises OSError for a path that does not
\* exist), VirtualDirectory.touch, and MappedDirectory.touch, which calls
\* touch of the directory and with the name the mapping gives.
directory_touch(d, kind, filename, mtime) ==
  LET t == IF mtime = NoTime THEN Now ELSE mtime
      which == IF kind = "mapped" THEN d.mapping[filename].directory ELSE kind
      name == IF kind = "mapped" THEN d.mapping[filename].name ELSE filename
  IN  IF d[which][name].is = "nothing"
         \/ (which = "virtual" /\ d[which][name].is # "file")
      THEN Outcome(TRUE, 0, d)
      ELSE Outcome(FALSE, 0, [d EXCEPT ![which][name].mtime = t])

\* DiskDirectory.getmtime, VirtualDirectory.getmtime, MappedDirectory.getmtime
directory_getmtime(d, kind, filename) ==
  LET which == IF kind = "mapped" THEN d.mapping[filename].directory ELSE kind
      name == IF kind = "mapped" THEN d.mapping[filename].name ELSE filename
  IN  IF d[which][name].is = "nothing"
         \/ (which = "virtual" /\ d[which][name].is # "file")
      THEN Outcome(TRUE, 0, d)
      ELSE Outcome(FALSE, d[which][name].mtime, d)

NoDirectoryCall ==
  [op |-> "none", kind |-> "", filename |-> "", mtime |-> 0,
   raised |-> FALSE, value |-> 0]

NoDirectories ==
  [disk |-> [f \in Filenames |-> NoEntry],
   virtual |-> [f \in Filenames |-> NoEntry],
   mapping |-> [f \in Filenames |-> [directory |-> "disk", name |-> f]],
   before |-> [disk |-> [f \in Filenames |-> NoEntry],
               virtual |-> [f \in Filenames |-> NoEntry]],
   last |-> NoDirectoryCall, calls |-> 0]

\* ----------------------------------------------------------------- loader
\* The SEBS files of the tree; what a file imports, in order.
Files == {"a", "b", "c"}
ImportLists == {<<>>, <<"a">>, <<"b">>, <<"c">>, <<"b", "a">>}

NotLoaded == [state |-> "absent", object |-> 0]

\* What a load returns: the loader afterwards, whether DefinitionError was
\* raised, and the BuildFile object.
Loaded(l, raised, object) == [l |-> l, raised |-> raised, object |-> object]

\* A variant of __load_file without the finally clause.
StillMarked(l, filename) == l

\* "finally: del self.__loaded_files[filename]"
Unmarked(l, filename) == [l EXCEPT !.loaded_files[filename] = NotLoaded]

RECURSIVE load_file(_, _)
RECURSIVE ImportAll(_, _, _)

\* __load_file after context.run(run) ended as r: the marker is removed,
\* then the exception goes on or a new BuildFile is stored.
FileRun(filename, r) ==
  IF r.raised THEN Loaded(Unmarked(r.l, filename), TRUE, 0)
  ELSE Loaded([Unmarked(r.l, filename) EXCEPT
                 !.objects = @ + 1,
                 !.loaded_files[filename] =
                    [state |-> "loaded", object |-> r.l.objects + 1]],
              FALSE, r.l.objects + 1)

\* The file's sebs.import_ calls from the k-th on; r is what the k-th
\* returned.
Imported(r, names, k) ==
  IF r.raised THEN r ELSE ImportAll(r.l, names, k + 1)

\* Executing a file: its imports, one after the other (_Builtins.import_
\* calls load_with_timestamp, which calls __load_file).
ImportAll(l, names, k) ==
  IF k > Len(names) THEN Loaded(l, FALSE, 0)
  ELSE Imported(load_file(l, names[k]), names, k)

\* Loader.__load_file
load_file(l, filename) ==
  IF l.loaded_files[filename].state = "loading"
  THEN \* "File recursively imports itself"
       Loaded(l, TRUE, 0)
  ELSE IF l.loaded_files[filename].state = "loaded"
  THEN Loaded(l, FALSE, l.loaded_files[filename].object)
  ELSE FileRun(filename,
               ImportAll([l EXCEPT !.loaded_files[filename].state = "loading"],
                         l.imports[filename], 1))

\* A filename is the sequence of its components, "/" first when it is
\* absolute.  os.path.normpath: "." is dropped, ".." takes back the
\* component before it (at the root it is dropped, at the start of a
\* relative path it stays), and the empty path is ".".
normpath(filename) ==
  LET RECURSIVE Norm(_, _)
      Norm(rest, acc) ==
        IF rest = <<>> THEN (IF acc = <<>> THEN <<".">> ELSE acc)
        ELSE IF Head(rest) = "." THEN Norm(Tail(rest), acc)
        ELSE IF Head(rest) = ".."
        THEN IF acc # <<>> /\ acc[Len(acc)] \notin {"..", "/"}
             THEN Norm(Tail(rest), SubSeq(acc, 1, Len(acc) - 1))
             ELSE IF acc # <<>> /\ acc[Len(acc)] = "/"
             THEN Norm(Tail(rest), acc)
             ELSE Norm(Tail(rest), Append(acc, ".."))
        ELSE Norm(Tail(rest), Append(acc, Head(rest)))
  IN  Norm(filename, <<>>)

\* _ContextImpl.__validate_artifact_name raises nothing
ValidArtifactName(filename) ==
  /\ filename = normpath(filename)
  /\ ~(Len(filename) > 1 /\ filename[1] = "..")      \* startswith("../")
  /\ ~(filename # <<>> /\ filename[1] = "/")         \* startswith("/")

\* Loader.derived_artifact: the registry is looked up with the filename as
\* given and assigned under the normalized filename.
derived_artifact(l, filename, action) ==
  IF \E e \in l.derived_artifacts : e.filename = filename
  THEN Loaded(l, TRUE, 0)
  ELSE Loaded([l EXCEPT
                 !.derived_artifacts =
                    {e \in @ : e.filename # normpath(filename)}
                      \cup {[filename |-> normpath(filename), action |-> action]},
                 !.artifacts = Append(@, [filename |-> normpath(filename),
                                          action |-> action])],
              FALSE, 0)

\* _ContextImpl.intermediate_artifact ("tmp") and memory_artifact ("mem") of
\* the context of a file in `directory`.
context_artifact(l, top, directory, filename, action) ==
  IF ~ValidArtifactName(filename) THEN Loaded(l, TRUE, 0)
  ELSE derived_artifact(l, <<top>> \o directory \o filename, action)

\* _ContextImpl.output_artifact
output_artifact(l, directory, filename, action) ==
  IF ~ValidArtifactName(filename) THEN Loaded(l, TRUE, 0)
  ELSE IF directory \notin {"bin", "include", "lib", "share"}
  THEN Loaded(l, TRUE, 0)
  ELSE derived_artifact(l, <<directory>> \o filename, action)

NoLoader ==
  [imports |-> [f \in Files |-> <<>>],
   loaded_files |-> [f \in Files |-> NotLoaded],
   objects |-> 0, derived_artifacts |-> {}, artifacts |-> <<>>,
   before |-> [loaded_files |-> [f \in Files |-> NotLoaded],
               derived_artifacts |-> {}, artifacts |-> <<>>],
   last |-> [op |-> "none", filename |-> <<>>, given |-> <<>>,
             directory |-> "", action |-> "", raised |-> FALSE, object |-> 0],
   calls |-> 0]

\* The files a command context is exercised on: one in the output directory
\* on disk, one in the VirtualDirectory mapped at mem/.
ContextNames == {"out", "mem"}

NoContext ==
  [files |-> [n \in ContextNames |-> [mtime |-> Missing, content |-> None]],
   temp_files_for_mem |-> [n \in ContextNames |-> 0],
   tmp |-> [k \in 1..MaxContextCalls |-> [mtime |-> Missing, content |-> None]],
   made |-> 0, now |-> 0, calls |-> 0,
   op |-> None, artifact |-> None, use_temporary |-> FALSE,
   path |-> [kind |-> "none", id |-> 0], content |-> None]

\* The environment variables and the files of the env directory: NAME and
\* set/NAME, as sequences of path components.
EnvNames == {"V", "W"}
EnvFilenames == {<<v>> : v \in EnvNames} \cup {<<"set", v>> : v \in EnvNames}

NoMapping ==
  [env_dir |-> [f \in EnvFilenames |-> [mtime |-> Missing, content |-> None]],
   configured_env |-> {},
   environ |-> [v \in EnvNames |-> None],
   now |-> 0, calls |-> 0, filename |-> <<>>]

Rules == {"r1", "r2", "r3"}

NoRule ==
  [deps |-> [r \in Rules |-> <<>>], fails |-> {},
   expanded |-> [r \in Rules |-> "false"], expands |-> [r \in Rules |-> 0],
   calls |-> 0, called |-> None, raised |-> FALSE, reentered |-> {}]

NoCommands ==
  [content |-> None, readable |-> FALSE, has_else |-> FALSE, env |-> None,
   default |-> [kind |-> "none", value |-> None],
   op |-> None, outcome |-> None, inputs |-> <<>>, outputs |-> <<>>,
   result |-> None, written |-> {}, value |-> None, log |-> ""]

PartsIdle ==
  /\ context = NoContext /\ mapping = NoMapping /\ rule = NoRule
  /\ commands = NoCommands

LibrariesIdle ==
  /\ hasher = NoHasher /\ tester = NoTester
  /\ directories = NoDirectories /\ loader = NoLoader
  /\ PartsIdle


builder == [sm |-> sm, action_queue |-> action_queue,
            num_pending |-> num_pending, err |-> FALSE]

\* ------------------------------------------------------------ the runners
\* The files of working_dir the runners are exercised on, and the actions.
RunnerArtifacts == {"i", "o1", "o2", "eo", "k1", "k2"}
RunnerActions == {"S", "E", "K", "N"}
\* The artifacts kept in the VirtualDirectory mapped at mem/: get_disk_path
\* has no path for them, so a command gets a temporary file.
MemArtifacts == {"o2"}
\* The files outside the tree a command may report with add_disk_input.
DiskFiles == {"lib"}
\* The values of the environment variable and of the file outside the tree.
Values == {"x", "y"}

NoFile == [mtime |-> Missing, content |-> None]
\* Directory.exists
Exists(f) == f.mtime # Missing
\* A touch that leaves the mtime as it is.
touch_nothing(fs, n, mtime) == fs

\* Directory.touch(filename, mtime); raises for a file that does not exist.
touch(fs, n, mtime) == [fs EXCEPT ![n].mtime = mtime]
\* Directory.write(filename, content, mtime)
write(fs, n, content, mtime) == [fs EXCEPT ![n] = [mtime |-> mtime, content |-> content]]

NoTempFile == [registered |-> FALSE, mtime |-> Missing, content |-> None]
NoTempFiles == [n \in MemArtifacts |-> NoTempFile]

\* The digest of nothing: cache.get() of an output without entry, and the
\* hash __can_skip returns when it has not computed one.
NoDigest == [i |-> {}, d |-> {}, o |-> {}, c |-> <<>>]

RECURSIVE EnumeratedArtifacts(_, _), EnumeratedByAll(_, _, _)
\* The rest of ConditionalCommand.enumerate_artifacts: the condition artifact
\* was read, which makes it an input; e is the branch's enumeration.
WithCondition(c, e) == [inputs |-> <<c>> \o e.inputs, outputs |-> e.outputs]

\* command.enumerate_artifacts with every input clean: the inputs and
\* outputs the Builder passes to ActionRunner.run.
EnumeratedArtifacts(cmd, fs) ==
  IF cmd.kind = "subprocess"
  THEN [inputs |-> cmd.inputs, outputs |-> cmd.outputs]
  ELSE IF cmd.kind = "environment"
  THEN [inputs |-> <<>>, outputs |-> <<cmd.output_artifact>>]
  ELSE IF cmd.kind = "conditional"
  THEN WithCondition(cmd.condition_artifact,
         EnumeratedArtifacts(
           ConditionalBranch(cmd, fs[cmd.condition_artifact].content), fs))
  ELSE IF cmd.kind = "do_all"
  THEN EnumeratedByAll(cmd.subcommands, 1, fs)
  ELSE [inputs |-> <<>>, outputs |-> <<>>]

\* DoAllCommand.enumerate_artifacts from subcommand k on.
AndThen(e, rest) ==
  [inputs |-> e.inputs \o rest.inputs, outputs |-> e.outputs \o rest.outputs]

EnumeratedByAll(subcommands, k, fs) ==
  IF k > Len(subcommands)
  THEN [inputs |-> <<>>, outputs |-> <<>>]
  ELSE AndThen(EnumeratedArtifacts(subcommands[k], fs),
               EnumeratedByAll(subcommands, k + 1, fs))

\* str(len(subcommands)) of DoAllCommand.hash
LengthString(n) == IF n = 0 THEN "0" ELSE IF n = 1 THEN "1" ELSE "2"

RECURSIVE CommandHash(_), HashAll(_, _)
\* Command.hash: the strings fed to the hasher, in order.
CommandHash(cmd) ==
  IF cmd.kind = "subprocess"
  THEN <<"SubprocessCommand:">> \o cmd.inputs \o <<"+">> \o cmd.outputs
  ELSE IF cmd.kind = "environment"
  THEN <<"EnvironmentCommand:", cmd.env_name, cmd.output_artifact, "x">>
  ELSE IF cmd.kind = "conditional"
  THEN <<"ConditionalCommand:", cmd.condition_artifact>>
       \o CommandHash(cmd.true_command)
       \o (IF cmd.false_command.kind = "none"
           THEN <<"-">>
           ELSE <<"+">> \o CommandHash(cmd.false_command))
  ELSE IF cmd.kind = "do_all"
  THEN <<"DoAllCommand:", LengthString(Len(cmd.subcommands)), " ">>
       \o HashAll(cmd.subcommands, 1)
  ELSE <<>>

\* The loop of DoAllCommand.hash from subcommand k on.
HashAll(subcommands, k) ==
  IF k > Len(subcommands) THEN <<>>
  ELSE CommandHash(subcommands[k]) \o HashAll(subcommands, k + 1)

\* CachingRunner.__hash: what the digest is computed from.  Names are fed in
\* sorted order and every string with its length, so the digest depends on
\* the set of (name, content) pairs of the inputs and of the disk inputs,
\* on the set of output names and on the command's hash.
hash(fs, dsk, cmd, inputs, disk_inputs, outputs) ==
  [i |-> {<<n, fs[n].content>> : n \in Range(inputs)},
   d |-> {<<n, dsk[n]>> : n \in disk_inputs},
   o |-> Range(outputs),
   c |-> CommandHash(cmd)]

\* __can_skip without its last loop: outputs are not looked for.
can_skip_unseen_outputs(cch, fs, dsk, cmd, inputs, disk_inputs, outputs) ==
  IF Len(outputs) = 0
  THEN [can_skip |-> FALSE, hash |-> NoDigest]
  ELSE IF cch[outputs[1]] = NoDigest
  THEN [can_skip |-> FALSE, hash |-> NoDigest]
  ELSE IF \E k \in 2..Len(outputs) : cch[outputs[k]] # cch[outputs[1]]
  THEN [can_skip |-> FALSE, hash |-> NoDigest]
  ELSE IF \E d \in disk_inputs : dsk[d] = None
  THEN [can_skip |-> FALSE, hash |-> NoDigest]
  ELSE [can_skip |-> hash(fs, dsk, cmd, inputs, disk_inputs, outputs) = cch[outputs[1]],
        hash |-> hash(fs, dsk, cmd, inputs, disk_inputs, outputs)]

\* CachingRunner.__can_skip.  Result: [can_skip, hash].
can_skip(cch, fs, dsk, cmd, inputs, disk_inputs, outputs) ==
  IF Len(outputs) = 0
  THEN [can_skip |-> FALSE, hash |-> NoDigest]
  ELSE IF cch[outputs[1]] = NoDigest
  THEN [can_skip |-> FALSE, hash |-> NoDigest]   \* Nothing in cache.
  ELSE IF \E k \in 2..Len(outputs) : cch[outputs[k]] # cch[outputs[1]]
  THEN [can_skip |-> FALSE, hash |-> NoDigest]
  ELSE IF \E d \in disk_inputs : dsk[d] = None
  THEN [can_skip |-> FALSE, hash |-> NoDigest]
  ELSE IF hash(fs, dsk, cmd, inputs, disk_inputs, outputs) # cch[outputs[1]]
  THEN [can_skip |-> FALSE,
        hash |-> hash(fs, dsk, cmd, inputs, disk_inputs, outputs)]
  ELSE IF \E k \in 1..Len(outputs) : ~Exists(fs[outputs[k]])
  THEN [can_skip |-> FALSE,
        hash |-> hash(fs, dsk, cmd, inputs, disk_inputs, outputs)]
  ELSE [can_skip |-> TRUE,
        hash |-> hash(fs, dsk, cmd, inputs, disk_inputs, outputs)]

\* _CommandContextImpl.get_disk_path for the artifacts named in the arguments:
\* an artifact without a disk path gets a temporary file, seeded with the
\* artifact's content and mtime if it exists, empty and new otherwise.
TempFilesFor(fs, names, now) ==
  [n \in MemArtifacts |->
     IF n \notin names THEN NoTempFile
     ELSE IF Exists(fs[n])
     THEN [registered |-> TRUE, mtime |-> fs[n].mtime, content |-> fs[n].content]
     ELSE [registered |-> TRUE, mtime |-> now, content |-> ""]]

\* What the child process writes into an output: the program is a
\* deterministic function of its inputs.
SubprocessOutput(cmd, fs) ==
  IF Len(cmd.inputs) = 0 THEN "k" ELSE fs[cmd.inputs[1]].content

\* SubprocessCommand.run: the arguments are formatted, the child runs and
\* writes the outputs in `written`, on disk or into their temporary files.
\* result: "true", "false" (exit code not 0), "interrupt" (the child was
\* killed by SIGINT), "error" (any other exception).
SubprocessRun(cmd, fs, now, outcome, written) ==
  [files |->
     [n \in DOMAIN fs |->
        IF n \in written \ MemArtifacts
        THEN [mtime |-> now, content |-> SubprocessOutput(cmd, fs)]
        ELSE fs[n]],
   temp_files |->
     [n \in MemArtifacts |->
        IF n \in written
        THEN [registered |-> TRUE, mtime |-> now,
              content |-> SubprocessOutput(cmd, fs)]
        ELSE TempFilesFor(fs, Range(cmd.inputs) \cup Range(cmd.outputs), now)[n]],
   result |-> outcome]

\* A variant of EnvironmentCommand.run that takes every default for None.
EnvironmentRunWithoutDefault(cmd, fs, env, now) ==
  IF env = None
  THEN [files |-> fs, temp_files |-> NoTempFiles, result |-> "false"]
  ELSE [files |-> write(fs, cmd.output_artifact, env, now),
        temp_files |-> NoTempFiles, result |-> "true"]

\* EnvironmentCommand.run: the variable's value, or, if it is not set, the
\* default string or the content of the default artifact; False without
\* writing if there is no default.
EnvironmentRun(cmd, fs, env, now) ==
  IF env # None
  THEN [files |-> write(fs, cmd.output_artifact, env, now),
        temp_files |-> NoTempFiles, result |-> "true"]
  ELSE IF cmd.default.kind = "none"
  THEN [files |-> fs, temp_files |-> NoTempFiles, result |-> "false"]
  ELSE IF cmd.default.kind = "artifact"
  THEN [files |-> write(fs, cmd.output_artifact,
                        fs[cmd.default.value].content, now),
        temp_files |-> NoTempFiles, result |-> "true"]
  ELSE [files |-> write(fs, cmd.output_artifact, cmd.default.value, now),
        temp_files |-> NoTempFiles, result |-> "true"]

\* A variant of ConditionalCommand.run that takes every content that is not
\* "true" for "false".
ConditionFailsNever(value) == FALSE

\* ConditionalCommand.run: the content is neither "true" nor "false"; the
\* command writes "Condition artifact was not true or false" to the log and
\* returns False.
ConditionFails(value) == value \notin {"true", "false"}

RECURSIVE CommandRun(_, _, _, _, _, _), RunAll(_, _, _, _, _, _, _, _)
\* command.run(context, log)
CommandRun(cmd, fs, env, now, outcome, written) ==
  IF cmd.kind = "subprocess"
  THEN SubprocessRun(cmd, fs, now, outcome, written \cap Range(cmd.outputs))
  ELSE IF cmd.kind = "environment"
  THEN EnvironmentRun(cmd, fs, env, now)
  ELSE IF cmd.kind = "conditional"
  THEN IF ConditionFails(fs[cmd.condition_artifact].content)
       THEN [files |-> fs, temp_files |-> NoTempFiles, result |-> "false"]
       ELSE CommandRun(ConditionalBranch(cmd, fs[cmd.condition_artifact].content),
                       fs, env, now, outcome, written)
  ELSE IF cmd.kind = "do_all"
  THEN RunAll(cmd.subcommands, 1,
              [files |-> fs, temp_files |-> NoTempFiles, result |-> "true"],
              env, now, outcome, written, NoTempFiles)
  ELSE [files |-> fs, temp_files |-> NoTempFiles, result |-> "true"]

\* The temporary files registered by earlier subcommands stay registered.
KeepTempFiles(r, tmp) ==
  [r EXCEPT !.temp_files =
     [n \in MemArtifacts |-> IF r.temp_files[n].registered THEN r.temp_files[n]
                             ELSE tmp[n]]]

\* The loop of DoAllCommand.run from subcommand k on: the first subcommand
\* that does not return true ends it.
RunAll(subcommands, k, r, env, now, outcome, written, tmp) ==
  IF k > Len(subcommands) \/ r.result # "true" THEN KeepTempFiles(r, tmp)
  ELSE RunAll(subcommands, k + 1,
              CommandRun(subcommands[k], r.files, env, now, outcome, written),
              env, now, outcome, written, KeepTempFiles(r, tmp).temp_files)

\* _CommandContextImpl.resolve_mem_files: every temporary file is written
\* back with its own mtime and removed.
resolve_mem_files(fs, tmp) ==
  [n \in DOMAIN fs |->
     IF n \in MemArtifacts /\ tmp[n].registered
     THEN [mtime |-> tmp[n].mtime, content |-> tmp[n].content]
     ELSE fs[n]]

\* One step of SubprocessRunner.__reset_mtime: touch(filename, 0), the
\* exception for a file that does not exist swallowed.
ResetOne(f) == IF Exists(f) THEN [f EXCEPT !.mtime = ResetTime] ELSE f

\* SubprocessRunner.__reset_mtime
runner_reset_mtime(fs, outputs) ==
  [n \in DOMAIN fs |-> IF n \in Range(outputs) THEN ResetOne(fs[n]) ELSE fs[n]]

\* The two calls of the non-success exits in the other order.
FailedExitResetFirst(fs, tmp, outputs) ==
  resolve_mem_files(runner_reset_mtime(fs, outputs), tmp)

\* The non-success exits of SubprocessRunner.run: resolve_mem_files, then
\* __reset_mtime(outputs).
FailedExit(fs, tmp, outputs) ==
  runner_reset_mtime(resolve_mem_files(fs, tmp), outputs)

\* No call of CachingRunner.run in progress.
NoCall ==
  [action |-> None, inputs |-> <<>>, disk_inputs |-> {}, outputs |-> <<>>,
   hash |-> NoDigest, result |-> None]

\* Executions by the sub-runner are remembered per action and per output.
Executable == RunnerActions \cup (RunnerArtifacts \ {"i"})
NeverExecuted == [e \in Executable |-> [result |-> "never", hash |-> NoDigest]]

\* CachingRunner.__init__ and a tree in which nothing has been built: the
\* input exists, no output does, the cache is empty.
RunnersStartWith(content, lib, env) ==
  /\ files = [n \in RunnerArtifacts |->
               IF n = "i" THEN [mtime |-> MaxTime, content |-> content]
               ELSE NoFile]
  /\ disk = [d \in DiskFiles |-> lib]
  /\ environ = env
  /\ cache = [n \in RunnerArtifacts |-> NoDigest]
  /\ temp_files = NoTempFiles
  /\ call = NoCall
  /\ clock = Now
  /\ changes = 0
  /\ last = [action |-> None, result |-> None, inputs |-> <<>>,
             disk_inputs |-> {}, outputs |-> <<>>, reported |-> {},
             returned |-> None, time |-> 0]
  /\ last_exec = NeverExecuted

\* The directories a build can start from: derived files of any age or
\* missing, a missing file having no content.
InitialMtimes ==
  {m \in [Artifacts -> Times \cup {Missing}] :
     /\ \A a \in Artifacts : ArtifactAction(a) = None => m[a] \in SourceTimes \cup {Missing}
     /\ \A a \in Artifacts \ Targets : m[a] = Missing}

InitialContents(m) == IF m["t"] = Missing THEN {None} ELSE Contents

\* The mtimes of SEBS files: older than every file or as new as the newest.
SebsTimes == {ResetTime, MaxTime}

\* _Builtins.import_: the context's timestamp after importing a file whose
\* own load ended with the timestamp `timestamp`.
import_(context_timestamp, timestamp) ==
  IF timestamp > context_timestamp THEN timestamp ELSE context_timestamp

\* Loader and Builder.__init__: the rule's context starts with the mtime of
\* its SEBS file (sebs_mtime) and imports one other file.
InitFrom(mtimes, sebs_times) ==
  /\ \E m \in mtimes, own \in sebs_times, imported \in sebs_times :
       \E v \in InitialContents(m) :
         /\ dir = [mtime |-> m, content |-> [a \in {"t"} |-> v],
                   sebs_mtime |-> own,
                   context_timestamp |-> import_(own, imported)]
         /\ initial_mtime = m
  /\ sm = EmptyStateMap
  /\ action_queue = <<>>
  /\ num_pending = 0
  /\ failed = FALSE
  /\ lock = 0
  /\ pc = [w \in Workers |-> "waiting"]
  /\ cur = [w \in Workers |-> None]
  /\ phase = "adding"
  /\ requested = {}
  /\ pops = [x \in Actions |-> 0]
  /\ finished = {}
  /\ done_at_start = [x \in Actions |-> {}]
  /\ run_failed = {}

Init ==
  /\ InitFrom(InitialMtimes, SebsTimes)
  /\ RunnersStartWith("true", None, None)
  /\ LibrariesIdle

\* The directories of a tree whose source and SEBS files carry the smallest
\* mtimes a file can have (an unpacked archive with cleared timestamps):
\* no derived file is older than its inputs or its definition.
OldSourceMtimes ==
  {m \in [Artifacts -> Times \cup {Missing}] :
     /\ \A a \in Artifacts : ArtifactAction(a) = None => m[a] \in {1, Missing}
     /\ \A a \in Artifacts \ Targets : m[a] = Missing}

InitOldSources ==
  /\ InitFrom(OldSourceMtimes, {ResetTime})
  /\ RunnersStartWith("true", None, None)
  /\ LibrariesIdle

\* The Builder's fields after an operation that left them as b.
BuilderBecomes(b) ==
  /\ sm' = b.sm
  /\ action_queue' = b.action_queue
  /\ num_pending' = b.num_pending

\* A DefinitionError raised by add_artifact ends the program before any
\* thread is started.
Added(b) ==
  /\ BuilderBecomes(b)
  /\ phase' = IF b.err THEN "error" ELSE "adding"

\* The worker goes round the loop after the dependents were updated; a
\* DefinitionError raised by update_readiness leaves build through its
\* finally clause, which releases the lock.
Completed(w, b) ==
  /\ BuilderBecomes(b)
  /\ pc' = [pc EXCEPT ![w] = IF b.err THEN "raised" ELSE "loop"]
  /\ lock' = IF b.err THEN 0 ELSE w

historyUnchanged == UNCHANGED <<pops, finished, done_at_start, run_failed, initial_mtime>>

\* main.build: builder.add_rule / add_test -> Builder.add_artifact(a).
AddArtifact(a) ==
  /\ phase = "adding"
  /\ Cardinality(requested \cup {a}) <= MaxRequests
  /\ Added(add_artifact(builder, dir, a))
  /\ requested' = requested \cup {a}
  /\ UNCHANGED <<dir, failed, lock, pc, cur>>
  /\ historyUnchanged
  /\ UNCHANGED <<runnerVars, libraryVars>>

\* main.build starts the threads, each running builder.build(runner).
StartBuild ==
  /\ phase = "adding"
  /\ phase' = "building"
  /\ UNCHANGED <<dir, sm, action_queue, num_pending, failed, lock, pc, cur, requested>>
  /\ historyUnchanged
  /\ UNCHANGED <<runnerVars, libraryVars>>

\* self.__lock.acquire(): on entry to build, and after time.sleep(1).
Acquire(w) ==
  /\ phase = "building"
  /\ pc[w] = "waiting"
  /\ lock = 0
  /\ lock' = w
  /\ pc' = [pc EXCEPT ![w] = "loop"]
  /\ UNCHANGED <<dir, sm, action_queue, num_pending, failed, cur, phase, requested>>
  /\ historyUnchanged
  /\ UNCHANGED <<runnerVars, libraryVars>>

\* The while condition is false: finally: self.__lock.release(), return.
ExitLoop(w) ==
  /\ pc[w] = "loop" /\ lock = w
  /\ ~LoopCondition(num_pending, failed)
  /\ pc' = [pc EXCEPT ![w] = "done"]
  /\ lock' = 0
  /\ UNCHANGED <<dir, sm, action_queue, num_pending, failed, cur, phase, requested>>
  /\ historyUnchanged
  /\ UNCHANGED <<runnerVars, libraryVars>>

\* Empty queue: release the lock and sleep.
Sleep(w) ==
  /\ pc[w] = "loop" /\ lock = w
  /\ LoopCondition(num_pending, failed)
  /\ Len(action_queue) = 0
  /\ pc' = [pc EXCEPT ![w] = "waiting"]
  /\ lock' = 0
  /\ UNCHANGED <<dir, sm, action_queue, num_pending, failed, cur, phase, requested>>
  /\ historyUnchanged
  /\ UNCHANGED <<runnerVars, libraryVars>>

\* action = popleft(); num_pending -= 1; action_runner.run(action, ...).  The
\* lock stays held unless the command spawns a process.
StartAction(w) ==
  /\ pc[w] = "loop" /\ lock = w
  /\ LoopCondition(num_pending, failed)
  /\ Len(action_queue) > 0
  /\ LET x == Head(action_queue)
     IN /\ action_queue' = Tail(action_queue)
        /\ num_pending' = num_pending - 1
        /\ cur' = [cur EXCEPT ![w] = x]
        /\ pops' = [pops EXCEPT ![x] = @ + 1]
        /\ done_at_start' = [done_at_start EXCEPT ![x] = finished]
        /\ lock' = IF CommandSpawns(ActionCommand(x), dir) THEN 0 ELSE w
  /\ pc' = [pc EXCEPT ![w] = "running"]
  /\ UNCHANGED <<dir, sm, failed, phase, requested, finished, run_failed, initial_mtime>>
  /\ UNCHANGED <<runnerVars, libraryVars>>

\* run returned true, having written the outputs: mark the outputs clean,
\* update the dependents (a set, visited in any order), go round the loop.
RunSucceeds(w) ==
  /\ pc[w] = "running" /\ lock \in {0, w}
  /\ \E v \in Contents, order \in Orderings(sm.act[cur[w]].blocked) :
       /\ dir' = WriteOutputs(dir, sm.act[cur[w]].outputs, v)
       /\ Completed(w, CompleteAction(builder, dir', cur[w], order))
  /\ finished' = finished \cup {cur[w]}
  /\ cur' = [cur EXCEPT ![w] = None]
  /\ UNCHANGED <<failed, phase, requested, pops, done_at_start, run_failed, initial_mtime>>
  /\ UNCHANGED <<runnerVars, libraryVars>>

\* run returned false (the command failed): the runner reset the outputs'
\* mtimes; build sets failed and returns.
RunFails(w) ==
  /\ pc[w] = "running" /\ lock \in {0, w}
  /\ CommandSpawns(ActionCommand(cur[w]), dir)
  /\ dir' = reset_mtime(dir, sm.act[cur[w]].outputs)
  /\ failed' = TRUE
  /\ pc' = [pc EXCEPT ![w] = "done"]
  /\ lock' = 0
  /\ cur' = [cur EXCEPT ![w] = None]
  /\ run_failed' = run_failed \cup {cur[w]}
  /\ UNCHANGED <<sm, action_queue, num_pending, phase, requested>>
  /\ UNCHANGED <<pops, finished, done_at_start, initial_mtime>>
  /\ UNCHANGED <<runnerVars, libraryVars>>

\* run raised (e.g. OSError from Popen or from the directory): the runner
\* reset the outputs' mtimes and re-raised; the exception leaves build
\* through its finally clause, which releases the lock.
RunRaises(w) ==
  /\ pc[w] = "running" /\ lock \in {0, w}
  /\ CommandSpawns(ActionCommand(cur[w]), dir)
  /\ dir' = reset_mtime(dir, sm.act[cur[w]].outputs)
  /\ pc' = [pc EXCEPT ![w] = "raised"]
  /\ lock' = 0
  /\ cur' = [cur EXCEPT ![w] = None]
  /\ run_failed' = run_failed \cup {cur[w]}
  /\ UNCHANGED <<sm, action_queue, num_pending, failed, phase, requested>>
  /\ UNCHANGED <<pops, finished, done_at_start, initial_mtime>>
  /\ UNCHANGED <<runnerVars, libraryVars>>

\* main.build: KeyboardInterrupt while joining the threads.
Interrupt ==
  /\ phase = "building"
  /\ ~failed
  /\ \E w \in Workers : pc[w] \notin {"done", "raised"}
  /\ failed' = TRUE
  /\ UNCHANGED <<dir, sm, action_queue, num_pending, lock, pc, cur, phase, requested>>
  /\ historyUnchanged
  /\ UNCHANGED <<runnerVars, libraryVars>>

Next ==
  \/ \E a \in Targets : AddArtifact(a)
  \/ StartBuild
  \/ \E w \in Workers : Acquire(w)
  \/ \E w \in Workers : ExitLoop(w)
  \/ \E w \in Workers : Sleep(w)
  \/ \E w \in Workers : StartAction(w)
  \/ \E w \in Workers : RunSucceeds(w)
  \/ \E w \in Workers : RunFails(w)
  \/ \E w \in Workers : RunRaises(w)
  \/ Interrupt

Spec == Init /\ [][Next]_vars

SpecOldSources == InitOldSources /\ [][Next]_vars

\* The builds that may also ask for the consumer's output f_out, started
\* from trees whose files are missing or as new as the source.
ConsumerMtimes == [Artifacts -> {MaxTime, Missing}]

InitConsumer ==
  /\ InitFrom(ConsumerMtimes, {ResetTime})
  /\ RunnersStartWith("true", None, None)
  /\ LibrariesIdle

NextConsumer ==
  \/ Next
  \/ AddArtifact("f_out")

SpecConsumer == InitConsumer /\ [][NextConsumer]_vars

\* ------------------------------------------------- the runners at work
\* The disk inputs the caller passes to run for an action: what the command
\* reported when the Builder enumerated it, present on the disk or not.
PassedDiskInputs(x) == IF x = "S" THEN SUBSET DiskFiles ELSE {{}}

\* The disk inputs the command reports to the _DiskInputCollector after its
\* run: files it has read.
ReportedDiskInputs(x, dsk) ==
  IF x = "S" THEN SUBSET {d \in DiskFiles : dsk[d] # None} ELSE {{}}

\* What the child of a subprocess command can have done when it ended:
\* a success has written every output, any other end any part of them.
Endings(outputs) ==
  {[outcome |-> "true", written |-> Range(outputs)]}
    \cup {[outcome |-> oc, written |-> w] :
             oc \in {"false", "interrupt", "error"}, w \in SUBSET Range(outputs)}

\* A call can start: none is in progress.
Idle == call.action = None /\ clock < Now + MaxRuns

\* A change can be made: no call is in progress.
Changeable == call.action = None /\ changes < MaxChanges

\* What CachingRunner.run returns to its caller.
Returned(result) ==
  IF result \in {"skipped", "true"} THEN "True"
  ELSE IF result = "false" THEN "False" ELSE "raised"

Ended(x, result, c, d0, d1, h) ==
  /\ last' = [action |-> x, result |-> result, inputs |-> c.inputs,
              disk_inputs |-> d0, outputs |-> c.outputs, reported |-> d1,
              returned |-> Returned(result), time |-> clock]
  /\ last_exec' =
       IF result = "skipped" THEN last_exec
       ELSE [k \in Executable |->
               IF k = x \/ k \in Range(c.outputs)
               THEN [result |-> IF result = "true" THEN "true" ELSE "failed",
                     hash |-> h]
               ELSE last_exec[k]]

\* CachingRunner.run, can_skip: "no changes", every output touched.
SkipWith(x, e, d0, cs) ==
  /\ cs.can_skip
  /\ files' = [n \in RunnerArtifacts |->
                IF n \in Range(e.outputs) THEN touch(files, n, clock)[n]
                ELSE files[n]]
  /\ Ended(x, "skipped", e, d0, {}, cs.hash)
  /\ clock' = clock + 1
  /\ UNCHANGED <<disk, environ, cache, temp_files, call, changes>>

Skip(x) ==
  /\ Idle
  /\ \E d0 \in PassedDiskInputs(x) :
       SkipWith(x, EnumeratedArtifacts(ActionCommand(x), files), d0,
                can_skip(cache, files, disk, ActionCommand(x),
                         EnumeratedArtifacts(ActionCommand(x), files).inputs, d0,
                         EnumeratedArtifacts(ActionCommand(x), files).outputs))
  /\ UNCHANGED <<builderVars, libraryVars>>

\* The cache with the entries of the outputs left as they are.
UnclearedCache(cch, outputs) == cch

\* "Clear all outputs from cache since the cached value is now invalid."
ClearedCache(cch, outputs) ==
  [n \in DOMAIN cch |-> IF n \in Range(outputs) THEN NoDigest ELSE cch[n]]

\* CachingRunner.run, not can_skip: the outputs' cache entries are cleared
\* and the sub-runner runs the command, up to the end of command.run.
DelegateWith(x, e, d0, cs, r) ==
  /\ ~cs.can_skip
  /\ cache' = ClearedCache(cache, e.outputs)
  /\ files' = r.files
  /\ temp_files' = r.temp_files
  /\ call' = [action |-> x, inputs |-> e.inputs, disk_inputs |-> d0,
              outputs |-> e.outputs, hash |-> cs.hash, result |-> r.result]
  /\ clock' = clock + 1
  /\ UNCHANGED <<disk, environ, changes, last, last_exec>>

Delegate(x) ==
  /\ Idle
  /\ \E d0 \in PassedDiskInputs(x) :
       \E end \in Endings(EnumeratedArtifacts(ActionCommand(x), files).outputs) :
         DelegateWith(x, EnumeratedArtifacts(ActionCommand(x), files), d0,
                      can_skip(cache, files, disk, ActionCommand(x),
                               EnumeratedArtifacts(ActionCommand(x), files).inputs, d0,
                               EnumeratedArtifacts(ActionCommand(x), files).outputs),
                      CommandRun(ActionCommand(x), files, environ, clock,
                                 end.outcome, end.written))
  /\ UNCHANGED <<builderVars, libraryVars>>

\* The hash of before the run, recorded whatever it is.
RecordedHashOfBefore(c, fs, dsk, d1) == c.hash

\* The hash CachingRunner.run records after a success: recomputed if it was
\* not computed before or if the disk inputs changed.
RecordedHash(c, fs, dsk, d1) ==
  IF c.hash = NoDigest \/ c.disk_inputs # d1
  THEN hash(fs, dsk, ActionCommand(c.action), c.inputs, d1, c.outputs)
  ELSE c.hash

RecordWith(d1, h) ==
  /\ cache' = [n \in RunnerArtifacts |->
                IF n \in Range(call.outputs) THEN h ELSE cache[n]]
  /\ Ended(call.action, "true", call, call.disk_inputs, d1, h)

\* command.run returned true: resolve_mem_files, SubprocessRunner.run returns
\* True and CachingRunner.run records the hash under every output.
ReturnTrue ==
  /\ call.action # None
  /\ call.result = "true"
  /\ files' = resolve_mem_files(files, temp_files)
  /\ temp_files' = NoTempFiles
  /\ \E d1 \in ReportedDiskInputs(call.action, disk) :
       RecordWith(d1, RecordedHash(call, resolve_mem_files(files, temp_files),
                                   disk, d1))
  /\ call' = NoCall
  /\ UNCHANGED <<disk, environ, clock, changes>>
  /\ UNCHANGED <<builderVars, libraryVars>>

\* command.run returned false: resolve_mem_files, __reset_mtime(outputs),
\* both runners return False.
ReturnFalse ==
  /\ call.action # None
  /\ call.result = "false"
  /\ files' = FailedExit(files, temp_files, call.outputs)
  /\ temp_files' = NoTempFiles
  /\ Ended(call.action, "false", call, call.disk_inputs, {}, NoDigest)
  /\ call' = NoCall
  /\ UNCHANGED <<disk, environ, cache, clock, changes>>
  /\ UNCHANGED <<builderVars, libraryVars>>

\* command.run raised KeyboardInterrupt or another exception:
\* resolve_mem_files, __reset_mtime(outputs), the exception leaves both
\* runners.
Raise ==
  /\ call.action # None
  /\ call.result \in {"interrupt", "error"}
  /\ files' = FailedExit(files, temp_files, call.outputs)
  /\ temp_files' = NoTempFiles
  /\ Ended(call.action, "raised", call, call.disk_inputs, {}, NoDigest)
  /\ call' = NoCall
  /\ UNCHANGED <<disk, environ, cache, clock, changes>>
  /\ UNCHANGED <<builderVars, libraryVars>>

\* Between two calls the user edits the input, ...
EditInput ==
  /\ Changeable
  /\ \E v \in Contents \ {files["i"].content} : files' = write(files, "i", v, clock)
  /\ changes' = changes + 1
  /\ UNCHANGED <<disk, environ, cache, temp_files, call, clock, last, last_exec>>
  /\ UNCHANGED <<builderVars, libraryVars>>

\* ... sets or unsets the environment variable, ...
SetEnv ==
  /\ Changeable
  /\ \E v \in (Values \cup {None}) \ {environ} : environ' = v
  /\ changes' = changes + 1
  /\ UNCHANGED <<files, disk, cache, temp_files, call, clock, last, last_exec>>
  /\ UNCHANGED <<builderVars, libraryVars>>

\* ... installs, changes or removes a file outside the tree, ...
ChangeDisk ==
  /\ Changeable
  /\ \E d \in DiskFiles : \E v \in (Values \cup {None}) \ {disk[d]} :
       disk' = [disk EXCEPT ![d] = v]
  /\ changes' = changes + 1
  /\ UNCHANGED <<files, environ, cache, temp_files, call, clock, last, last_exec>>
  /\ UNCHANGED <<builderVars, libraryVars>>

\* ... or removes an output.
RemoveOutput ==
  /\ Changeable
  /\ \E n \in RunnerArtifacts \ {"i"} :
       /\ Exists(files[n])
       /\ files' = [files EXCEPT ![n] = NoFile]
  /\ changes' = changes + 1
  /\ UNCHANGED <<disk, environ, cache, temp_files, call, clock, last, last_exec>>
  /\ UNCHANGED <<builderVars, libraryVars>>

RunnerInit ==
  /\ InitFrom({[a \in Artifacts |-> Missing]}, {ResetTime})
  /\ \E env \in {"x", None} : RunnersStartWith("true", "x", env)
  /\ LibrariesIdle

RunnerNext ==
  \/ \E x \in RunnerActions : Skip(x)
  \/ \E x \in RunnerActions : Delegate(x)
  \/ ReturnTrue
  \/ ReturnFalse
  \/ Raise
  \/ EditInput
  \/ SetEnv
  \/ ChangeDisk
  \/ RemoveOutput

RunnerSpec == RunnerInit /\ [][RunnerNext]_vars

\* ------------------------------------------------- the parts on their own
Idleness ==
  /\ InitFrom({[a \in Artifacts |-> Missing]}, {ResetTime})
  /\ RunnersStartWith("true", None, None)

\* command.hash(hasher) of both commands
FeedCommands ==
  /\ hasher.by = ""
  /\ hasher' = [hasher EXCEPT !.by = "command",
                              !.fed = <<command_hash(hasher.first.cmd),
                                        command_hash(hasher.second.cmd)>>]
  /\ UNCHANGED <<builderVars, runnerVars, tester, directories, loader, partVars>>

\* CachingRunner.__hash of both actions
FeedActions ==
  /\ hasher.by = ""
  /\ hasher' =
       [hasher EXCEPT
          !.by = "action",
          !.fed = <<hash_feed(hasher.first.inputs, hasher.first.disk_inputs,
                              hasher.first.outputs, hasher.first.cmd),
                    hash_feed(hasher.second.inputs, hasher.second.disk_inputs,
                              hasher.second.outputs, hasher.second.cmd)>>]
  /\ UNCHANGED <<builderVars, runnerVars, tester, directories, loader, partVars>>

HashInit ==
  /\ Idleness /\ PartsIdle /\ hasher \in HashTasks
  /\ tester = NoTester /\ directories = NoDirectories /\ loader = NoLoader
HashNext == FeedCommands \/ FeedActions
HashSpec == HashInit /\ [][HashNext]_vars

\* ------------------------------------------------------------------ claims
AllReturned == phase = "building" /\ \A w \in Workers : pc[w] = "done"
Executed(x) == pops[x] > 0

\* Action y consumes an output of action x: some input handed to the runner
\* for y is created by x.
Consumes(y, x) == \E i \in Range(sm.act[y].inputs) : ArtifactAction(i) = x

\* C1: whenever a producer A and a consumer B of one of A's artifacts are both
\* executed in a build, A's run had completed when B was popped and started.
C1_ProducerCompletesBeforeConsumerStarts ==
  \A x, y \in Actions :
     (Executed(x) /\ Executed(y) /\ Consumes(y, x)) => x \in done_at_start[y]

\* C2: no action is popped from the queue more than once, and the queue never
\* holds an action twice or an action that was already popped.
C2_PoppedAtMostOnce ==
  /\ \A x \in Actions : pops[x] <= 1
  /\ \A i, j \in 1..Len(action_queue) : i # j => action_queue[i] # action_queue[j]
  /\ \A i \in 1..Len(action_queue) : pops[action_queue[i]] = 0

\* C2 witness: a build of MaxRequests requested artifacts has returned
\* without failure and every action it needs was popped and run exactly once.
C2_Witness ==
  /\ AllReturned /\ ~failed
  /\ Cardinality(requested) = MaxRequests
  /\ \A x \in {"A", "C", "D"} : pops[x] = 1 /\ x \in finished

\* C3: once build has returned on every worker without failure, every
\* requested artifact is clean.
C3_RequestedArtifactsClean ==
  (AllReturned /\ ~failed) =>
     \A a \in requested : sm.art[a].known /\ ~sm.art[a].is_dirty

\* No worker is left polling: nothing is queued or running while actions are
\* still pending and the build has not failed.
NobodyWaitsForever ==
  ~ /\ phase = "building" /\ ~failed
    /\ num_pending > 0 /\ Len(action_queue) = 0
    /\ \A w \in Workers : pc[w] # "running"
    /\ \E w \in Workers : pc[w] \in {"waiting", "loop"}

\* C4: build does not leave a worker waiting for actions that can never be
\* queued, and when every worker has returned without failure every action
\* that was marked pending has been executed.
C4_BuildRunsUntilNothingPending ==
  /\ NobodyWaitsForever
  /\ (AllReturned /\ ~failed) =>
        \A x \in Actions : sm.act[x].is_pending => x \in finished

\* C5: once failed is true it stays true, no action is popped any more, a
\* worker at the head of the loop leaves it, and no action that consumes an
\* output of an action whose run failed is executed in the build.
C5_FailureStopsTheBuild ==
  [][/\ failed =>
          /\ failed'
          /\ pops' = pops
          /\ \A w \in Workers :
               (pc[w] = "loop" /\ pc'[w] # "loop") => pc'[w] = "done"
     /\ \A x \in run_failed' : \A d \in Actions :
          (Consumes(d, x))' => ~(Executed(d))']_vars

\* C6: when run raises while a worker executes an action, the build is
\* marked failed and no worker takes another action.
C6_ExceptionFailsTheBuild ==
  [][/\ \A w \in Workers :
          (pc[w] = "running" /\ pc'[w] = "raised" /\ cur[w] \in run_failed')
          => failed'
     /\ \A x \in Actions : run_failed # {} => pops'[x] = pops[x]]_vars

\* The inputs of a command whose enumeration does not read any file.
StaticInputs(x) == Range(ActionCommand(x).inputs)

RECURSIVE ReachableFrom(_)
\* The artifacts reachable from artifact a through the inputs of producers.
ReachableFrom(a) ==
  IF ArtifactAction(a) = None \/ ActionCommand(ArtifactAction(a)).kind # "subprocess"
  THEN {a}
  ELSE {a} \cup UNION {ReachableFrom(i) : i \in StaticInputs(ArtifactAction(a))}

\* The requested artifacts only reach commands with a fixed enumeration.
RequestsAreStatic ==
  \A r \in requested : \A a \in ReachableFrom(r) :
     ArtifactAction(a) # None => ActionCommand(ArtifactAction(a)).kind = "subprocess"

RECURSIVE DirtyAtStart(_)
\* Dirtiness as the claim defines it, over the files as they were when the
\* build started: missing, older than the build definition, older than an
\* input beyond the one second grace, or with a dirty input.
DirtyAtStart(a) ==
  /\ ArtifactAction(a) # None
  /\ \/ initial_mtime[a] = Missing
     \/ initial_mtime[a] < dir.context_timestamp
     \/ \E i \in StaticInputs(ArtifactAction(a)) :
          DirtyAtStart(i) \/ initial_mtime[a] + 1 < initial_mtime[i]

ExpectedActions ==
  {ArtifactAction(a) :
     a \in {d \in UNION {ReachableFrom(r) : r \in requested} : DirtyAtStart(d)}}

\* The set of executed actions is the set of producers of the dirty artifacts
\* reachable from the requests.
ExecutesExactlyTheDirtyProducers ==
  (AllReturned /\ ~failed /\ RequestsAreStatic) =>
     /\ finished = ExpectedActions
     /\ \A x \in Actions : Executed(x) <=> x \in finished

\* C7: for commands with a fixed enumeration, a build that returns without
\* failure has executed exactly the producers of the dirty artifacts
\* reachable from the requests, each producer before its consumers.
C7_ExactlyDirtyProducersInOrder ==
  /\ ExecutesExactlyTheDirtyProducers
  /\ (AllReturned /\ ~failed /\ RequestsAreStatic) =>
        \A x, y \in finished : Consumes(y, x) => x \in done_at_start[y]

\* C8: when the state of an existing artifact is first computed and its
\* producing action has among its inputs an output of an action whose run
\* has completed in this build, the artifact is computed dirty.
C8_OutputOfRerunInputIsDirty ==
  [][\A c \in Artifacts :
       ( /\ ~sm.art[c].known /\ sm'.art[c].known
         /\ sm'.art[c].timestamp # Missing
         /\ ArtifactAction(c) # None
         /\ \E i \in Range(sm'.act[ArtifactAction(c)].inputs) :
              ArtifactAction(i) \in finished' )
       => sm'.art[c].is_dirty]_vars

\* The state of a's producing action in the result r of artifact_state for a.
ProducerState(r, a) == r.sm.act[ArtifactAction(a)]

GraceApplies(r, a) ==
  /\ ~r.err
  /\ ArtifactAction(a) # None
  /\ r.sm.art[a].timestamp # Missing
  /\ ProducerState(r, a).is_ready
  /\ a \in Range(ProducerState(r, a).outputs)
  /\ \A i \in Range(ProducerState(r, a).inputs) : ~r.sm.art[i].is_dirty
  /\ ~(r.sm.art[a].timestamp < dir.context_timestamp)

DirtyIffInputBeyondGrace(r, a) ==
  GraceApplies(r, a) =>
     (r.sm.art[a].is_dirty <=>
        \E i \in Range(ProducerState(r, a).inputs) :
           r.sm.art[i].timestamp > r.sm.art[a].timestamp + 1)

EnumeratedInputs(r, a) ==
  Range(enumerate_artifacts(r.sm, dir, ActionCommand(ArtifactAction(a))).inputs)

CleanIfInputsNotOlder(r, a) ==
  ( /\ ~r.err
    /\ ArtifactAction(a) # None
    /\ dir.mtime[a] # Missing
    /\ \A i \in EnumeratedInputs(r, a) :
         dir.mtime[i] # Missing /\ dir.mtime[i] >= dir.mtime[a] - 1 )
  => ~r.sm.art[a].is_dirty

CleanIfInputsNotNewer(r, a) ==
  ( /\ ~r.err
    /\ ArtifactAction(a) # None
    /\ r.sm.art[a].timestamp # Missing
    /\ a \in Range(enumerate_artifacts(r.sm, dir,
                     ActionCommand(ArtifactAction(a))).outputs)
    /\ r.sm.art[a].timestamp >= dir.context_timestamp
    /\ \A i \in EnumeratedInputs(r, a) :
         /\ r.sm.art[i].known /\ ~r.sm.art[i].is_dirty
         /\ r.sm.art[i].timestamp # Missing
         /\ r.sm.art[i].timestamp <= r.sm.art[a].timestamp + 1 )
  => ~r.sm.art[a].is_dirty

DirtyIfOlderThanDefinition(r, a) ==
  ( /\ ~r.err
    /\ ArtifactAction(a) # None
    /\ dir.mtime[a] # Missing
    /\ \/ dir.mtime[a] < dir.sebs_mtime
       \/ dir.mtime[a] < dir.context_timestamp )
  => r.sm.art[a].known /\ r.sm.art[a].is_dirty

\* C11: whenever the state of an existing derived artifact is constructed
\* and the artifact is older, by any amount, than its rule's SEBS file or
\* than the timestamp the context reached through its imports, the artifact
\* is dirty, whatever its inputs and its producer's readiness.
C11_OlderThanDefinitionIsDirty ==
  \A a \in Artifacts :
     ~sm.art[a].known =>
        DirtyIfOlderThanDefinition(artifact_state(sm, dir, a), a)

\* C11 witness: before any action ran, the state map holds a dirty artifact
\* one second older than the context's timestamp, which an import raised
\* above the SEBS file's own mtime, its producer being ready and every input
\* clean and within the grace.
C11_Witness ==
  /\ \A x \in Actions : ~Executed(x)
  /\ sm.art["c_out"].known /\ sm.art["c_out"].is_dirty
  /\ sm.art["c_out"].timestamp + 1 = dir.context_timestamp
  /\ dir.sebs_mtime < sm.art["c_out"].timestamp
  /\ sm.act["C"].is_ready
  /\ ~sm.art["t"].is_dirty
  /\ sm.art["t"].timestamp <= sm.art["c_out"].timestamp + 1

\* The requested artifacts whose producer has a fixed enumeration.
StaticRequests ==
  {a \in requested : ArtifactAction(a) # None
                      /\ ActionCommand(ArtifactAction(a)).kind = "subprocess"}

\* add_artifact(a) has just returned: the producer of a is pending iff it
\* was pending before or a itself is dirty.
PendingIffRequestedIsDirty ==
  \A a \in Artifacts :
     (a \notin requested /\ a \in requested' /\ phase' # "error"
      /\ ArtifactAction(a) # None)
     => (sm'.act[ArtifactAction(a)].is_pending
           <=> (sm.act[ArtifactAction(a)].is_pending \/ sm'.art[a].is_dirty))

\* Requests of up-to-date outputs only execute nothing; a requested
\* out-of-date output has its producer executed exactly once by a build that
\* returned without failure.
ExecutedPerRequestedArtifact ==
  /\ (StaticRequests = requested /\ \A a \in requested : ~DirtyAtStart(a))
        => \A x \in Actions : ~Executed(x)
  /\ (AllReturned /\ ~failed) =>
        \A a \in StaticRequests :
           DirtyAtStart(a) => /\ pops[ArtifactAction(a)] = 1
                              /\ ArtifactAction(a) \in finished

\* C12: add_artifact makes the producing action pending iff the requested
\* artifact itself is dirty; a build that requests only up-to-date outputs
\* executes nothing, whatever the state of the other outputs of their
\* producers, and a build that requests out-of-date outputs executes each
\* producer exactly once.
C12_DirtinessIsPerRequestedArtifact ==
  [][PendingIffRequestedIsDirty /\ ExecutedPerRequestedArtifact']_vars

\* C12 witness: only the up-to-date output t of A was requested while A's
\* other output t2 is missing, and the build returned without executing
\* anything.
C12_Witness ==
  /\ AllReturned /\ ~failed
  /\ requested = {"t"}
  /\ sm.art["t"].known /\ ~sm.art["t"].is_dirty
  /\ dir.mtime["t2"] = Missing
  /\ \A x \in Actions : ~Executed(x)

\* C12 second witness: both outputs of A were requested, both out of date,
\* and A was executed once.
C12_WitnessBothOutputs ==
  /\ AllReturned /\ ~failed
  /\ requested = {"t", "t2"}
  /\ DirtyAtStart("t") /\ DirtyAtStart("t2")
  /\ pops["A"] = 1

\* The actions marked pending in state map m.
PendingActions(m) == {x \in Actions : m.act[x].is_pending}

\* r is the result of artifact_state for an artifact a whose file is missing.
MissingFileState(r, a) ==
  dir.mtime[a] = Missing =>
     IF ArtifactAction(a) = None
     THEN r.err /\ PendingActions(r.sm) = PendingActions(sm)
     ELSE /\ ~r.err
          /\ r.sm.art[a].known
          /\ r.sm.art[a].timestamp = -1
          /\ r.sm.art[a].is_dirty

\* b is the Builder after add_artifact for a source artifact a.
SourceRequestAddsNothing(b, a) ==
  ArtifactAction(a) = None =>
     /\ b.err <=> dir.mtime[a] = Missing
     /\ PendingActions(b.sm) = PendingActions(sm)
     /\ b.num_pending = num_pending
     /\ b.action_queue = action_queue

\* C13: constructing the state of a source artifact whose file is missing
\* raises DefinitionError and makes no action pending; a missing derived
\* artifact gets timestamp -1 and is_dirty = true without error; requesting
\* a source artifact that exists makes nothing pending, and a build whose
\* requests are all source artifacts executes nothing.
C13_MissingSourceIsDefinitionError ==
  /\ \A a \in Artifacts :
        ~sm.art[a].known => MissingFileState(artifact_state(sm, dir, a), a)
  /\ phase = "adding" =>
        \A a \in Artifacts :
           SourceRequestAddsNothing(add_artifact(builder, dir, a), a)
  /\ (\A a \in requested : ArtifactAction(a) = None)
        => \A x \in Actions : ~Executed(x)

\* C13 witness: a missing derived artifact was requested and registered as
\* dirty with timestamp -1; scheduling its producer reached the missing
\* source file, which ended the request in DefinitionError with nothing
\* pending.
C13_Witness ==
  /\ phase = "error"
  /\ dir.mtime["in"] = Missing
  /\ ~sm.art["in"].known
  /\ PendingActions(sm) = {} /\ num_pending = 0
  /\ sm.art["d_out"].known /\ sm.art["d_out"].is_dirty
  /\ sm.art["d_out"].timestamp = -1

\* C13 second witness: the existing source file alone was requested and the
\* build returned without executing anything.
C13_WitnessExistingSource ==
  /\ AllReturned /\ ~failed
  /\ requested = {"in"} /\ sm.art["in"].known /\ ~sm.art["in"].is_dirty
  /\ \A x \in Actions : ~Executed(x)

\* Builder.__init__ of the next invocation of the program.
NewBuilder ==
  [sm |-> EmptyStateMap, action_queue |-> <<>>, num_pending |-> 0, err |-> FALSE]

\* Every thread of the invocation has ended.
InvocationEnded ==
  phase = "building" /\ \A w \in Workers : pc[w] \in {"done", "raised"}

\* b is the Builder of the next invocation after add_artifact(a).
RequestedAgainIsRebuilt(b, a) ==
  ~b.err => /\ b.sm.art[a].is_dirty
            /\ b.sm.act[ArtifactAction(a)].is_pending

\* C20: once an invocation has ended, every output that a failed or
\* interrupted run left with mtime 0 is dirty in the state map of the next
\* invocation, and requesting it makes its producer pending again.
C20_ZeroedOutputIsDirtyNextTime ==
  InvocationEnded =>
     \A x \in run_failed : \A a \in Range(sm.act[x].outputs) :
        dir.mtime[a] = 0 =>
           RequestedAgainIsRebuilt(add_artifact(NewBuilder, dir, a), a)

\* ------------------------------------------------------ claims: runners
\* A call of CachingRunner.run that skips, and one that delegates to the
\* sub-runner, as steps.
SkipStep == call.action = None /\ last' # last /\ last'.result = "skipped"
DelegateStep == call.action = None /\ call'.action # None

\* The conditions under which an action is to be skipped, on the cache,
\* the files and the disk as they are when run is called.
SkipConditions(x, inputs, disk_inputs, outputs) ==
  /\ Len(outputs) > 0
  /\ \A n \in Range(outputs) : cache[n] # NoDigest
  /\ \A n, m \in Range(outputs) : cache[n] = cache[m]
  /\ \A d \in disk_inputs : disk[d] # None
  /\ \A n \in Range(outputs) :
       cache[n] = hash(files, disk, ActionCommand(x), inputs, disk_inputs, outputs)
  /\ \A n \in Range(outputs) : Exists(files[n])

SkippedIffConditions ==
  /\ SkipStep =>
       SkipConditions(last'.action, last'.inputs, last'.disk_inputs, last'.outputs)
  /\ DelegateStep =>
       ~SkipConditions(call'.action, call'.inputs, call'.disk_inputs, call'.outputs)

\* C14: CachingRunner skips an action iff its output list is non-empty,
\* every output has a cache entry and all entries are one digest H, every
\* disk input exists, the digest recomputed from the current input contents,
\* disk-input contents, output names and command equals H, and every output
\* exists; in every other case the sub-runner is invoked.
C14_SkippedIffConditions == [][SkippedIffConditions]_vars

\* An action with two outputs and a disk input has been skipped.
C14_Witness ==
  last.result = "skipped" /\ last.action = "S" /\ last.disk_inputs # {}

\* The sub-runner is invoked although the digest was computed: it differs
\* from the cached one or an output is missing; and it is invoked for an
\* action without outputs.
C14_WitnessDelegated ==
  call.action = "S" /\ call.hash # NoDigest /\ last_exec["S"].result = "true"
C14_WitnessNoOutputs == call.action = "N"

\* The digest of the action being skipped, from the files and the disk as
\* they are when run is called.
DigestNow ==
  hash(files, disk, ActionCommand(last'.action), last'.inputs,
       last'.disk_inputs, last'.outputs)

\* C15 as stated: an action is skipped only if its most recent execution by
\* the sub-runner returned success and recorded the digest that now
\* matches; after an execution that failed or was aborted, the next run of
\* the action is never skipped.
C15_SkippedOnlyAfterSuccessOfAction ==
  [][SkipStep => /\ last_exec[last'.action].result = "true"
                 /\ last_exec[last'.action].hash = DigestNow]_vars

\* C15, amended: an action is skipped only if, for each of its current
\* outputs, the most recent execution by the sub-runner that had this output
\* in its output list returned success and recorded the digest that now
\* matches; after an execution that failed or was aborted, the next run with
\* one of that execution's outputs in its output list is never skipped.
C15_SkippedOnlyAfterSuccessOnOutputs ==
  [][SkipStep => \A n \in Range(last'.outputs) :
                   /\ last_exec[n].result = "true"
                   /\ last_exec[n].hash = DigestNow]_vars

\* The conditional action is skipped although its last execution, which had
\* the other output, failed.
C15_Witness ==
  last.result = "skipped" /\ last.action = "K" /\ last_exec["K"].result = "failed"

\* An action is run after a failed execution with the same outputs and
\* unchanged inputs, and is not skipped.
C15_WitnessRetried ==
  /\ call.action = "S" /\ last.action = "S" /\ last.result \in {"false", "raised"}
  /\ changes = 0

\* The sub-runner's run ends and CachingRunner.run with it.
ReturnStep == call.action # None /\ call'.action = None

OthersUnchanged(outputs) ==
  \A n \in RunnerArtifacts \ Range(outputs) : cache'[n] = cache[n]

CacheAfterDelegation ==
  /\ DelegateStep => OthersUnchanged(call'.outputs)
  /\ ReturnStep =>
       /\ OthersUnchanged(call.outputs)
       /\ call.result = "true" =>
            \A n \in Range(call.outputs) :
              cache'[n] = hash(files', disk', ActionCommand(call.action),
                               call.inputs, last'.reported, call.outputs)
       /\ call.result = "false" =>
            \A n \in Range(call.outputs) : cache'[n] = NoDigest

\* C16: after CachingRunner.run delegated to the sub-runner, if the
\* sub-runner returned true every output of the action maps to one digest,
\* computed over the action's inputs, its disk inputs as re-enumerated after
\* the run, its outputs and its command; if it returned false no output of
\* the action keeps a usable cache entry; the entries of other actions'
\* outputs are unchanged in both cases.
C16_CacheAfterDelegation == [][CacheAfterDelegation]_vars

\* A successful run whose disk inputs were re-enumerated differently, with
\* another action's entry in the cache.
C16_Witness ==
  /\ last.result = "true" /\ last.action = "S" /\ call.action = None
  /\ last.reported # {} /\ last.disk_inputs # last.reported
  /\ cache["eo"] # NoDigest /\ cache["o1"] # NoDigest

\* A successful run that can keep the hash computed before the run, and a
\* run that returned false after an earlier success.
C16_WitnessKeptHash ==
  /\ call.action = "S" /\ call.result = "true" /\ call.hash # NoDigest
  /\ call.disk_inputs # {}
C16_WitnessFalse ==
  /\ last.result = "false" /\ last.action = "S" /\ cache["eo"] # NoDigest
  /\ Exists(files["o1"])

SkipLeavesAllButMtimes ==
  SkipStep =>
    /\ call' = NoCall /\ last_exec' = last_exec /\ temp_files' = temp_files
    /\ cache' = cache
    /\ \A n \in RunnerArtifacts : files'[n].content = files[n].content
    /\ \A n \in Range(last'.outputs) : files'[n].mtime = clock
    /\ \A n \in RunnerArtifacts \ Range(last'.outputs) : files'[n] = files[n]
    /\ last'.returned = "True"

\* C17: when CachingRunner skips an action, the sub-runner is not invoked,
\* no output's content is changed, the cache is left unchanged, the mtime of
\* each output is bumped to the current time, and run returns true.
C17_SkipLeavesAllButMtimes == [][SkipLeavesAllButMtimes]_vars

\* Both outputs of a skipped action carry the time of the skip, later than
\* the time they were written.
C17_Witness ==
  /\ last.result = "skipped" /\ last.action = "S" /\ last.returned = "True"
  /\ files["o1"].mtime + 1 = clock /\ files["o2"].mtime + 1 = clock
  /\ last_exec["S"].result = "true"

\* What the files would be had the action been run, successfully, instead
\* of being skipped.
RunInstead(r) == resolve_mem_files(r.files, r.temp_files)
FilesIfRun(x, outputs) ==
  RunInstead(CommandRun(ActionCommand(x), files, environ, clock, "true",
                        Range(outputs)))

SkippedOutputsAreWhatRunningProduces ==
  SkipStep => \A n \in Range(last'.outputs) :
                files'[n].content = FilesIfRun(last'.action, last'.outputs)[n].content

\* C18: whenever an action is skipped, the contents of its outputs are what
\* running the action now would produce, for every command variant,
\* including commands whose result depends on an environment variable.
C18_SkippedOutputsAreWhatRunningProduces ==
  [][SkippedOutputsAreWhatRunningProduces]_vars

NonSuccessExit ==
  ReturnStep /\ call.result \in {"false", "interrupt", "error"}

ResolvedThenReset ==
  NonSuccessExit =>
    /\ \A n \in MemArtifacts :
         temp_files[n].registered =>
           /\ Exists(files'[n])
           /\ files'[n].content = temp_files[n].content
    /\ \A n \in Range(call.outputs) :
         /\ Exists(files'[n]) => files'[n].mtime = ResetTime
         /\ Exists(files[n]) => Exists(files'[n])
    /\ \A n \in MemArtifacts : ~temp_files'[n].registered

C19_WitnessFalse ==
  call.result = "false" /\ call.action = "S" /\ temp_files["o2"].registered
C19_WitnessInterrupt ==
  call.result = "interrupt" /\ call.action = "S" /\ temp_files["o2"].registered
C19_WitnessError ==
  call.result = "error" /\ call.action = "S" /\ temp_files["o2"].registered

\* Builder.add_test(test), for a test whose name is `name`
add_test(name) ==
  /\ ~tester.printed /\ tester.finished = <<>>
  /\ \A k \in 1..Len(tester.tests) : tester.tests[k].name # name
  /\ tester' =
       [tester EXCEPT
          !.tests = Append(@, [name |-> name,
                               cached |-> ~tester.is_dirty[name]]),
          !.registered_dirty[name] = tester.is_dirty[name]]
  /\ UNCHANGED <<builderVars, runnerVars, hasher, directories, loader, partVars>>

\* build(): the action of a dirty registered test runs and succeeds; the
\* test wrote its result, the runner shows how the test went, the builder
\* marks the outputs clean.
RunTest(name) ==
  /\ ~tester.printed
  /\ \E k \in 1..Len(tester.tests) : tester.tests[k].name = name
  /\ tester.is_dirty[name]
  /\ \E content \in ResultContents :
       tester' =
         [tester EXCEPT
            !.result[name] = content,
            !.is_dirty[name] = FALSE,
            !.finished = Append(@, [name |-> name, result |-> content,
                                    passfail |-> PassFail(content)])]
  /\ UNCHANGED <<builderVars, runnerVars, hasher, directories, loader, partVars>>

\* Builder.print_test_results()
print_test_results ==
  /\ ~tester.printed
  /\ LET names == sorted([k \in 1..Len(tester.tests) |-> tester.tests[k].name])
         At(n) == CHOOSE k \in 1..Len(tester.tests) : tester.tests[k].name = n
         \* self.__tests.sort()
         tests == [k \in 1..Len(tester.tests) |-> tester.tests[At(names[k])]]
         messages == [k \in 1..Len(tests) |->
                        TestMessage(tests[k].name,
                                    tester.result[tests[k].name],
                                    tests[k].cached)]
         had_failure == \E k \in 1..Len(messages) :
                          messages[k].indicator.text = "FAILED"
     IN  tester' = [tester EXCEPT !.tests = tests,
                                  !.console = messages,
                                  !.printed = TRUE,
                                  !.returned = ~had_failure]
  /\ UNCHANGED <<builderVars, runnerVars, hasher, directories, loader, partVars>>

TestInit ==
  /\ Idleness /\ PartsIdle /\ hasher = NoHasher /\ directories = NoDirectories
  /\ loader = NoLoader
  /\ \E d \in [TestNames -> BOOLEAN], r \in [TestNames -> ResultContents] :
       tester = [NoTester EXCEPT !.is_dirty = d, !.result = r]
TestNext ==
  \/ \E name \in TestNames : add_test(name)
  \/ \E name \in TestNames : RunTest(name)
  \/ print_test_results
TestSpec == TestInit /\ [][TestNext]_vars

\* The call has ended with outcome r.
DirectoryCalled(op, kind, filename, mtime, r) ==
  directories' =
    [r.d EXCEPT
       !.calls = @ + 1,
       !.before = [disk |-> directories.disk, virtual |-> directories.virtual],
       !.last = [op |-> op, kind |-> kind, filename |-> filename,
                 mtime |-> mtime, raised |-> r.raised, value |-> r.value]]

\* dir.touch(filename, mtime) and dir.touch(filename)
Touch ==
  /\ directories.calls < MaxCalls
  /\ \E kind \in {"disk", "virtual", "mapped"}, filename \in Filenames,
        mtime \in 0..MaxTime \cup {NoTime} :
       DirectoryCalled("touch", kind, filename, mtime,
                       directory_touch(directories, kind, filename, mtime))
  /\ UNCHANGED <<builderVars, runnerVars, hasher, tester, loader, partVars>>

\* dir.getmtime(filename)
Getmtime ==
  /\ directories.calls < MaxCalls
  /\ \E kind \in {"disk", "virtual", "mapped"}, filename \in Filenames :
       DirectoryCalled("getmtime", kind, filename, 0,
                       directory_getmtime(directories, kind, filename))
  /\ UNCHANGED <<builderVars, runnerVars, hasher, tester, loader, partVars>>

\* A disk directory and a virtual directory with a file, a second file or
\* none, and a subdirectory or none, and a MappedDirectory over the two.
DirectoryInit ==
  /\ Idleness /\ PartsIdle /\ hasher = NoHasher /\ tester = NoTester /\ loader = NoLoader
  /\ \E foo \in Entries, other \in BOOLEAN, sub \in BOOLEAN,
        on \in {"disk", "virtual"} :
       LET held == [f \in Filenames |->
                      IF f = "foo" THEN foo
                      ELSE IF f = "bar" /\ other
                      THEN [is |-> "file", mtime |-> 2, content |-> "bar"]
                      ELSE IF f = "sub" /\ sub
                      THEN [is |-> "dir", mtime |-> 1, content |-> None]
                      ELSE NoEntry]
       IN  directories =
             [NoDirectories EXCEPT
                !.disk = held, !.virtual = held,
                !.before = [disk |-> held, virtual |-> held],
                !.mapping = [f \in Filenames |->
                               [directory |-> on,
                                name |-> IF f = "foo" THEN "bar"
                                         ELSE IF f = "bar" THEN "foo" ELSE f]]]
DirectoryNext == Touch \/ Getmtime
DirectorySpec == DirectoryInit /\ [][DirectoryNext]_vars

\* The call on the loader has ended as r.
LoaderCalled(op, filename, given, directory, action, r) ==
  loader' =
    [r.l EXCEPT
       !.calls = @ + 1,
       !.before = [loaded_files |-> loader.loaded_files,
                   derived_artifacts |-> loader.derived_artifacts,
                   artifacts |-> loader.artifacts],
       !.last = [op |-> op, filename |-> filename, given |-> given,
                 directory |-> directory, action |-> action,
                 raised |-> r.raised, object |-> r.object]]

\* loader.load(filename)
Load ==
  /\ loader.calls < MaxCalls
  /\ \E filename \in Files :
       LoaderCalled("load", <<filename>>, <<>>, "", "",
                    load_file(loader, filename))
  /\ UNCHANGED <<builderVars, runnerVars, hasher, tester, directories, partVars>>

\* context.intermediate_artifact(filename, action) and
\* context.memory_artifact(filename, action)
ContextArtifact ==
  /\ loader.calls < MaxCalls
  /\ \E top \in {"tmp", "mem"}, directory \in {<<>>, <<"foo">>},
        filename \in {<<"g">>, <<".">>, <<"..">>, <<"..", "p">>, <<"/", "r">>},
        action \in {"x", "y"} :
       LoaderCalled("derived", <<top>> \o directory \o filename, filename,
                    top, action,
                    context_artifact(loader, top, directory, filename, action))
  /\ UNCHANGED <<builderVars, runnerVars, hasher, tester, directories, partVars>>

\* context.output_artifact(directory, filename, action)
OutputArtifact ==
  /\ loader.calls < MaxCalls
  /\ \E directory \in {"bin", "baddir"},
        filename \in {<<"g">>, <<".">>, <<"..">>, <<"..", "p">>, <<"/", "r">>},
        action \in {"x", "y"} :
       LoaderCalled("output", <<directory>> \o filename, filename,
                    directory, action,
                    output_artifact(loader, directory, filename, action))
  /\ UNCHANGED <<builderVars, runnerVars, hasher, tester, directories, partVars>>

LoaderInit ==
  /\ Idleness /\ PartsIdle /\ hasher = NoHasher /\ tester = NoTester
  /\ directories = NoDirectories
  /\ \E imports \in [Files -> ImportLists] :
       loader = [NoLoader EXCEPT !.imports = imports]
LoaderNext == Load \/ ContextArtifact \/ OutputArtifact
LoaderSpec == LoaderInit /\ [][LoaderNext]_vars

\* -------------------------------------------------------- claims: hashes
\* The two commands are one command: equal in every field, the implicit
\* artifacts taken as a collection without order.
SameCommand(c1, c2) ==
  /\ IsPermutation(c1.implicit, c2.implicit)
  /\ [c1 EXCEPT !.implicit = <<>>] = [c2 EXCEPT !.implicit = <<>>]

SameUpToOrder(r, q) ==
  /\ IsPermutation(r.inputs, q.inputs)
  /\ IsPermutation(r.disk_inputs, q.disk_inputs)
  /\ IsPermutation(r.outputs, q.outputs)
  /\ SameCommand(r.cmd, q.cmd)

\* C21: the bytes CachingRunner feeds the hasher for an action and the bytes
\* SubprocessCommand.hash feeds do not depend on the order in which inputs,
\* disk inputs, outputs and implicit artifacts are supplied, and hashing an
\* equal command twice feeds equal bytes.
C21_HashIgnoresOrder ==
  (hasher.by \in {"command", "action"}
     /\ SameUpToOrder(hasher.first, hasher.second))
    => hasher.fed[1] = hasher.fed[2]

\* An action hashed with its inputs, outputs and implicit artifacts in two
\* different orders.
C21_Witness ==
  /\ hasher.by = "action" /\ SameUpToOrder(hasher.first, hasher.second)
  /\ hasher.first.inputs # hasher.second.inputs
  /\ hasher.first.outputs # hasher.second.outputs
  /\ hasher.first.cmd.implicit # hasher.second.cmd.implicit
  /\ Len(hasher.first.inputs) = 3

\* C22: the bytes a command's hash() feeds identify the command: two
\* commands that differ in variant or in any constructor field feed
\* different bytes.
C22_HashIdentifiesCommand ==
  (hasher.by = "command" /\ hasher.fed[1] = hasher.fed[2])
    => SameCommand(hasher.first.cmd, hasher.second.cmd)

\* -------------------------------------------------- claims: test results
Registered(name) == \E k \in 1..Len(tester.tests) : tester.tests[k].name = name

\* C23: print_test_results returns true iff the result artifact of every
\* registered test contains exactly "true"; it reports every registered test
\* once, PASSED iff its result is "true" and FAILED otherwise; a result of
\* "false" adds the path of the test-output artifact and nothing else does;
\* the report says "(cached)" iff the result artifact was not dirty when
\* add_test registered the test.
C23_TestReport ==
  tester.printed =>
    /\ tester.returned
         <=> \A n \in TestNames : Registered(n) => tester.result[n] = "true"
    /\ \A n \in TestNames :
         Registered(n) <=>
           \E k \in 1..Len(tester.console) : tester.console[k].name = n
    /\ Len(tester.console) = Len(tester.tests)
    /\ \A k \in 1..Len(tester.console) :
         LET m == tester.console[k]
         IN  /\ m.result = tester.result[m.name]
             /\ m.indicator.text =
                  (IF tester.result[m.name] = "true" THEN "PASSED" ELSE "FAILED")
             /\ m.more = (IF tester.result[m.name] = "false"
                          THEN <<"o">> \o m.name ELSE <<>>)
             /\ (m.indicator.suffix = " (cached)")
                  <=> ~tester.registered_dirty[m.name]
             /\ m.indicator.suffix \in {"", " (cached)"}

\* Three tests reported: one passed and cached, one failed with "false"
\* after running, one with another content; the build had cleaned them all.
C23_Witness ==
  /\ tester.printed /\ ~tester.returned /\ Len(tester.console) = 3
  /\ \E k \in 1..3 : /\ tester.console[k].indicator.text = "PASSED"
                      /\ tester.console[k].indicator.suffix = " (cached)"
  /\ \E k \in 1..3 : /\ tester.console[k].result = "false"
                      /\ tester.console[k].indicator.suffix = ""
  /\ \E k \in 1..3 : tester.console[k].result = "true\n"
  /\ \A n \in TestNames : ~tester.is_dirty[n]

\* Every registered test passed and the report returned true.
C23_WitnessTrue ==
  /\ tester.printed /\ tester.returned /\ Len(tester.console) = 2
  /\ Len(tester.finished) = 1

\* C24: a test result artifact that contains anything but exactly "true" or
\* "false" is a definition error, both when the runner shows how the
\* finished test went and when print_test_results reads the result: such a
\* content is never reported as a failed test.
C24_OtherResultIsDefinitionError ==
  /\ \A k \in 1..Len(tester.finished) :
       tester.finished[k].result \notin {"true", "false"}
         => tester.finished[k].passfail # "FAIL: "
  /\ \A k \in 1..Len(tester.console) :
       tester.console[k].result \notin {"true", "false"}
         => tester.console[k].indicator.text # "FAILED"

\* ------------------------------------------------------ claims: rebuilding
\* main.build in the next invocation: a new Builder, with an empty state
\* map, over the directory as it is now, given the requests of this one.
Rebuilt ==
  LET RECURSIVE AddRequests(_, _)
      AddRequests(b, S) ==
        IF S = {} \/ b.err THEN b
        ELSE AddRequests(add_artifact(b, dir, NextOf(S)), S \ {NextOf(S)})
  IN  AddRequests([sm |-> EmptyStateMap, action_queue |-> <<>>,
                   num_pending |-> 0, err |-> FALSE], requested)

\* C25: after a build that returned success a new Builder over the resulting
\* directory, given the same requests, has nothing pending and executes no
\* action.
C25_NoOpRebuild ==
  (AllReturned /\ ~failed) => (~Rebuilt.err /\ Rebuilt.num_pending = 0)

\* ------------------------------------------------- claims: the scheduler
\* C29: whenever a worker pops an action and hands it to the runner, the
\* action is pending and ready and every artifact of its input list is known
\* to the state map and not dirty; and a dirty artifact becomes clean only in
\* the step in which a worker that holds the lock afterwards completes the
\* run of the artifact's producer, which is never the step that starts an
\* action.
C29_StartedOnCleanInputs ==
  [][/\ \A x \in Actions :
          pops'[x] = pops[x] + 1 =>
            /\ sm.act[x].is_pending /\ sm.act[x].is_ready
            /\ sm'.act[x] = sm.act[x]
            /\ \E w \in Workers : cur'[w] = x /\ cur[w] = None
            /\ \A i \in Range(sm.act[x].inputs) :
                 sm.art[i].known /\ ~sm.art[i].is_dirty
     /\ \A a \in Artifacts :
          (sm.art[a].known /\ sm.art[a].is_dirty /\ ~sm'.art[a].is_dirty) =>
            /\ ArtifactAction(a) \in finished' \ finished
            /\ pops' = pops
            /\ \E w \in Workers :
                 /\ cur[w] = ArtifactAction(a) /\ pc[w] = "running"
                 /\ lock \in {0, w}
                 /\ lock' = w \/ pc'[w] = "raised"]_vars

\* A consumer has just been popped of which an input was missing at the
\* start of the build: its producer ran and completed before.
C29_Witness ==
  /\ \E w \in Workers : cur[w] = "C" /\ pc[w] = "running"
  /\ pops["C"] = 1 /\ "A" \in done_at_start["C"]
  /\ initial_mtime["t"] = Missing
  /\ "t" \in Range(sm.act["C"].inputs) /\ ~sm.art["t"].is_dirty

\* C30: while the workers run, every step that changes the state map, the
\* action queue, num_pending or failed is taken by a worker that holds the
\* lock (or takes it back on its way out of CommandContext.subprocess in
\* that step); inside build a worker is without the lock only while its
\* command's process runs and while it polls the empty queue; and a worker
\* that leaves build releases a lock no other worker holds.
C30_MutationsUnderLock ==
  [][phase = "building" =>
       /\ <<sm, action_queue, num_pending, failed>>'
            # <<sm, action_queue, num_pending, failed>>
          => \E w \in Workers :
               /\ pc'[w] # pc[w]
               /\ lock = w \/ (lock = 0 /\ pc[w] = "running")
       /\ \A w \in Workers :
            /\ pc[w] = "loop" => lock = w
            /\ (pc'[w] = "running" /\ pc[w] # "running" /\ lock' # w)
                 => lock' = 0 /\ CommandSpawns(ActionCommand(cur'[w]), dir')
            /\ (pc'[w] \in {"done", "raised"} /\ pc[w] \notin {"done", "raised"})
                 => lock \in {0, w} /\ lock' = 0]_vars

\* ---------------------------------------------------- claims: directories
\* C26: after touch(p, t) has returned, getmtime(p) of the same directory
\* returns t, for a disk directory, a virtual directory and a mapped
\* directory over them; the touch has changed nothing but that mtime (the
\* content of p and every other file are as before); and touch or getmtime
\* of a virtual directory for a path that is not a file raises os.error and
\* changes nothing.
C26_TouchThenGetmtime ==
  LET l == directories.last
      now == [disk |-> directories.disk, virtual |-> directories.virtual]
      which == IF l.kind = "mapped"
               THEN directories.mapping[l.filename].directory ELSE l.kind
      name == IF l.kind = "mapped"
              THEN directories.mapping[l.filename].name ELSE l.filename
  IN  /\ (l.op = "touch" /\ ~l.raised /\ l.mtime # NoTime) =>
           /\ directory_getmtime(directories, l.kind, l.filename).raised = FALSE
           /\ directory_getmtime(directories, l.kind, l.filename).value = l.mtime
           /\ now = [directories.before EXCEPT ![which][name].mtime = l.mtime]
      /\ (l.op # "none" /\ which = "virtual"
            /\ directories.before.virtual[name].is # "file") =>
           l.raised /\ now = directories.before
      /\ l.op = "getmtime" => now = directories.before

\* A file of the disk directory touched through the mapped directory with
\* mtime 0, under another name than its own.
C26_Witness ==
  /\ directories.last.op = "touch" /\ ~directories.last.raised
  /\ directories.last.kind = "mapped" /\ directories.last.mtime = 0
  /\ directories.mapping[directories.last.filename].directory = "disk"
  /\ directories.mapping[directories.last.filename].name # directories.last.filename
  /\ directories.before.disk["bar"].mtime # 0

\* touch of a subdirectory of the virtual directory has raised.
C26_WitnessNotAFile ==
  /\ directories.last.op = "touch" /\ directories.last.raised
  /\ directories.last.kind = "virtual"
  /\ directories.virtual[directories.last.filename].is = "dir"

\* --------------------------------------------------------- claims: loader
\* File f imports g, directly or through other files.
ImportsThrough(f, g) ==
  LET RECURSIVE Reach(_, _)
      Reach(S, n) ==
        IF n = 0 THEN S
        ELSE Reach(S \cup UNION {Range(loader.imports[h]) : h \in S}, n - 1)
  IN  g \in Reach(Range(loader.imports[f]), Cardinality(Files))

\* C27: loading a file that imports itself, directly or through a chain of
\* imports, raises DefinitionError; after every load no file carries the
\* in-progress marker; a file is kept as loaded only if neither it nor a
\* file it imports is on a cycle, and all the files it imports are loaded;
\* a load that does not raise returns the stored object, and a file that
\* was loaded is returned as the same object.
C27_CyclicImportRaises ==
  LET l == loader.last
      f == l.filename[1]
  IN  /\ \A g \in Files : loader.loaded_files[g].state # "loading"
      /\ \A g \in Files :
           loader.loaded_files[g].state = "loaded" =>
             /\ ~ImportsThrough(g, g)
             /\ \A h \in Files :
                  ImportsThrough(g, h) =>
                    ~ImportsThrough(h, h) /\ loader.loaded_files[h].state = "loaded"
      /\ l.op = "load" =>
           /\ (ImportsThrough(f, f)
                 \/ \E h \in Files : ImportsThrough(f, h) /\ ImportsThrough(h, h))
                <=> l.raised
           /\ l.raised => loader.loaded_files[f] = NotLoaded
           /\ ~l.raised => loader.loaded_files[f] =
                             [state |-> "loaded", object |-> l.object]
           /\ loader.before.loaded_files[f].state = "loaded" =>
                ~l.raised /\ l.object = loader.before.loaded_files[f].object
           /\ \A g \in Files :
                loader.before.loaded_files[g].state = "loaded" =>
                  loader.loaded_files[g] = loader.before.loaded_files[g]

\* A file that imports itself through another file was loaded and raised,
\* after a file outside the cycle had been loaded.
C27_Witness ==
  /\ loader.last.op = "load" /\ loader.last.raised
  /\ ~(loader.last.filename[1] \in Range(loader.imports[loader.last.filename[1]]))
  /\ ImportsThrough(loader.last.filename[1], loader.last.filename[1])
  /\ \E g \in Files : loader.before.loaded_files[g].state = "loaded"

\* A loaded file was loaded again.
C27_WitnessSameObject ==
  /\ loader.last.op = "load" /\ ~loader.last.raised
  /\ loader.before.loaded_files[loader.last.filename[1]].state = "loaded"
  /\ loader.imports[loader.last.filename[1]] # <<>>

\* C28: no filename has two artifacts, that is, two producing actions; a
\* claim of a derived filename that is registered raises DefinitionError and
\* leaves registry and artifacts as they were; output_artifact with a
\* directory other than bin, include, lib and share raises DefinitionError
\* and registers nothing.
C28_OneProducerPerFilename ==
  LET l == loader.last
      unchanged == /\ loader.derived_artifacts = loader.before.derived_artifacts
                   /\ loader.artifacts = loader.before.artifacts
  IN  /\ \A i, j \in 1..Len(loader.artifacts) :
           i # j => loader.artifacts[i].filename # loader.artifacts[j].filename
      /\ \A e \in loader.derived_artifacts :
           \E i \in 1..Len(loader.artifacts) : loader.artifacts[i] = e
      /\ (l.op \in {"derived", "output"}
            /\ \E e \in loader.before.derived_artifacts :
                 e.filename = normpath(l.filename))
           => l.raised /\ unchanged
      /\ (l.op = "output" /\ l.directory \notin {"bin", "include", "lib", "share"})
           => l.raised /\ unchanged
      /\ (l.op \in {"derived", "output"} /\ l.raised) => unchanged

\* ------------------------------------------------------ claims: the flags
\* C31: in every step an action state that is pending stays pending, one
\* that is ready stays ready, and an artifact state that is known and clean
\* stays known and clean; an artifact state that is dirty becomes clean only
\* in a step in which the run of its producing action completes with
\* success, and that action lists the artifact among its outputs.
C31_FlagsAreMonotonic ==
  [][/\ \A x \in Actions :
          /\ sm.act[x].is_pending => sm'.act[x].is_pending
          /\ sm.act[x].is_ready => sm'.act[x].is_ready
          /\ sm.act[x].known => sm'.act[x].known
     /\ \A a \in Artifacts :
          /\ sm.art[a].known => sm'.art[a].known
          /\ (sm.art[a].known /\ ~sm.art[a].is_dirty) => ~sm'.art[a].is_dirty
          /\ (sm.art[a].known /\ sm.art[a].is_dirty /\ ~sm'.art[a].is_dirty) =>
               /\ ArtifactAction(a) \in finished' \ finished
               /\ a \in Range(sm.act[ArtifactAction(a)].outputs)
               /\ \E w \in Workers : cur[w] = ArtifactAction(a)]_vars

\* An action completed and cleaned an output that was dirty, while another
\* output of it had been clean before it ran.
C31_Witness ==
  /\ "A" \in finished /\ sm.art["t2"].known /\ ~sm.art["t2"].is_dirty
  /\ initial_mtime["t2"] = Missing /\ initial_mtime["t"] # Missing
  /\ sm.act["C"].is_pending /\ sm.act["C"].is_ready

C33_NewlyReadyGoFirst ==
  [][/\ \A x \in Actions, w \in Workers :
          (x \in finished' \ finished /\ cur[w] = x) =>
            /\ \E order \in Orderings(sm.act[x].blocked) :
                 action_queue' = CompleteAction(builder, dir', x, order).action_queue
            /\ \A order \in Orderings(sm.act[x].blocked) :
                 LET r == CompleteAction(builder, dir', x, order)
                     JustReady(d) == /\ ~sm.act[d].is_ready /\ r.sm.act[d].is_ready
                                     /\ sm.act[d].is_pending
                     first == SelectSeq(order, JustReady)
                     n == Len(first) + Len(action_queue)
                 IN  ~r.err =>
                       /\ Len(r.action_queue) >= n
                       /\ SubSeq(r.action_queue, 1, n) = first \o action_queue
                       /\ \A k \in n + 1..Len(r.action_queue) :
                            /\ ~sm.act[r.action_queue[k]].is_pending
                            /\ r.sm.act[r.action_queue[k]].is_pending
                            /\ r.sm.act[r.action_queue[k]].is_ready
     /\ phase = "adding" =>
          /\ Len(action_queue') >= Len(action_queue)
          /\ SubSeq(action_queue', 1, Len(action_queue)) = action_queue
          /\ \A k \in Len(action_queue) + 1..Len(action_queue') :
               /\ ~sm.act[action_queue'[k]].is_pending
               /\ sm'.act[action_queue'[k]].is_pending
               /\ sm'.act[action_queue'[k]].is_ready]_vars

\* The completion of C made D ready while A was queued: D is ahead of A.
C33_Witness ==
  /\ action_queue = <<"D", "A">> /\ finished = {"C"}
  /\ \E w \in Workers : pc[w] = "loop"

\* Two dependents of A became ready at once.
C33_WitnessTwo ==
  /\ Len(action_queue) = 2 /\ finished = {"A"}
  /\ {action_queue[1], action_queue[2]} = {"C", "D"}
  /\ \E w \in Workers : pc[w] = "loop"


\* Some input of the list is dirty in the state map s while its producing
\* action is ready and does not list it among its outputs.
Ungenerated(s, inputs) ==
  \E k \in 1..Len(inputs) :
     /\ s.art[inputs[k]].known
     /\ s.art[inputs[k]].is_dirty
     /\ ArtifactAction(inputs[k]) # None
     /\ s.act[ArtifactAction(inputs[k])].known
     /\ s.act[ArtifactAction(inputs[k])].is_ready
     /\ inputs[k] \notin Range(s.act[ArtifactAction(inputs[k])].outputs)

\* C34: in every state of a build, update_readiness on an action that is not
\* ready raises the DefinitionError "X is needed, but Y didn't generate it"
\* exactly when, in the state map it leaves, one of the inputs the command
\* enumerated is dirty while its producer is ready and does not list it
\* (the only other DefinitionError is the one for the missing source file),
\* it then does not mark the action ready; and an action with such an input
\* is neither ready nor in the queue.
C34_UngeneratedInputRaises ==
  \A x \in Actions :
    ~sm.act[x].is_ready =>
      LET e == enumerate_artifacts(sm, dir, ActionCommand(x))
          r == update_readiness(sm, dir, x, sm.act[x])
      IN /\ Ungenerated(r.sm, e.inputs) => r.err /\ ~r.self.is_ready /\ ~r.became_ready
         /\ r.err /\ dir.mtime["in"] # Missing => Ungenerated(r.sm, e.inputs)
         /\ Ungenerated(sm, e.inputs) => x \notin Range(action_queue)

\* The error was raised inside build, after the conditional action D had
\* run without writing d_out.
C34_Witness ==
  /\ \E w \in Workers : pc[w] = "raised"
  /\ run_failed = {}
  /\ "D" \in finished
  /\ dir.mtime["in"] # Missing
  /\ Ungenerated(sm, <<"d_out">>)
  /\ ~sm.act["F"].is_ready
  /\ update_readiness(sm, dir, "F", sm.act["F"]).err

\* The error was raised by add_artifact.
C34_WitnessAdding ==
  /\ phase = "error"
  /\ requested = {"f_out"}
  /\ dir.mtime["in"] # Missing
  /\ Ungenerated(sm, <<"d_out">>)

\* C35: no DefinitionError is raised from inside build: no worker leaves
\* build with an exception in the step in which its action completed.
C35_NoDefinitionErrorInBuild ==
  [][\A w \in Workers :
       ~(pc[w] = "running" /\ pc'[w] = "raised" /\ cur[w] \in finished' \ finished)]_vars

\* Every DefinitionError of the adding phase ends the program before any
\* action was popped.
C35_ErrorsWhileAdding ==
  phase = "error" => \A x \in Actions : pops[x] = 0


\* ------------------------------------------------- a command context
\* _CommandContextImpl on its own.  context.files is working_dir,
\* context.temp_files_for_mem maps a filename to the number of its temporary
\* file (0: not in the dictionary), context.tmp holds the temporary files
\* that mkstemp created, by number.
NoPath == [kind |-> "none", id |-> 0]
TempPath(k) == [kind |-> "temp", id |-> k]

\* working_dir.get_disk_path(filename): the path in the output directory,
\* or None for a file of the VirtualDirectory mapped at mem/.
working_dir_get_disk_path(n) ==
  IF n = "out" THEN [kind |-> "disk", id |-> 0] ELSE NoPath

\* tempfile.mkstemp and the seeding of the new file: content and mtime of
\* the artifact if it exists, else an empty file of the current time.
mkstemp(c, n) ==
  [c EXCEPT !.made = @ + 1,
            !.temp_files_for_mem[n] = c.made + 1,
            !.tmp[c.made + 1] =
               IF Exists(c.files[n]) THEN c.files[n]
               ELSE [mtime |-> c.now, content |-> ""],
            !.path = TempPath(c.made + 1)]

\* A variant of get_disk_path that does not look into the dictionary.
get_disk_path_unmemoized(c, n, use_temporary) ==
  IF working_dir_get_disk_path(n) # NoPath
  THEN [c EXCEPT !.path = working_dir_get_disk_path(n)]
  ELSE IF ~use_temporary THEN [c EXCEPT !.path = NoPath]
  ELSE mkstemp(c, n)

\* _CommandContextImpl.get_disk_path(artifact, use_temporary)
context_get_disk_path(c, n, use_temporary) ==
  IF working_dir_get_disk_path(n) # NoPath
  THEN [c EXCEPT !.path = working_dir_get_disk_path(n)]
  ELSE IF ~use_temporary THEN [c EXCEPT !.path = NoPath]
  ELSE IF c.temp_files_for_mem[n] # 0
  THEN [c EXCEPT !.path = TempPath(c.temp_files_for_mem[n])]
  ELSE mkstemp(c, n)

\* _CommandContextImpl.read(artifact); reading a file that does not exist
\* raises (content None).
context_read(c, n) ==
  [c EXCEPT !.content =
     IF c.temp_files_for_mem[n] # 0 THEN c.tmp[c.temp_files_for_mem[n]].content
     ELSE c.files[n].content]

\* _CommandContextImpl.write(artifact, content)
context_write(c, n, content) ==
  IF c.temp_files_for_mem[n] # 0
  THEN [c EXCEPT !.tmp[c.temp_files_for_mem[n]] =
                    [mtime |-> c.now, content |-> content],
                 !.content = content]
  ELSE [c EXCEPT !.files = write(@, n, content, c.now), !.content = content]

\* _CommandContextImpl.resolve_mem_files: working_dir.write(filename, file,
\* os.path.getmtime(diskfile)); os.remove(diskfile); the dictionary emptied.
context_resolve_mem_files(c) ==
  [c EXCEPT !.files = [n \in ContextNames |->
                         IF c.temp_files_for_mem[n] # 0
                         THEN c.tmp[c.temp_files_for_mem[n]] ELSE @[n]],
            !.tmp = [k \in DOMAIN c.tmp |->
                       IF \E n \in ContextNames : c.temp_files_for_mem[n] = k
                       THEN NoFile ELSE @[k]],
            !.temp_files_for_mem = [n \in ContextNames |-> 0]]

\* A call made on the context, or a write by the child process, at the next
\* tick of the clock; c is the context with the call's result.
ContextCalling(op, n, use_temporary) ==
  [context EXCEPT !.calls = @ + 1, !.now = @ + 1, !.op = op, !.artifact = n,
                  !.use_temporary = use_temporary,
                  !.path = NoPath, !.content = None]

ContextFrame ==
  UNCHANGED <<builderVars, runnerVars, hasher, tester, directories, loader,
              mapping, rule, commands>>

GetDiskPath ==
  /\ context.calls < MaxContextCalls
  /\ \E n \in ContextNames, use_temporary \in BOOLEAN :
       context' = context_get_disk_path(
                    ContextCalling("get_disk_path", n, use_temporary),
                    n, use_temporary)
  /\ ContextFrame

ContextRead ==
  /\ context.calls < MaxContextCalls
  /\ \E n \in ContextNames :
       context' = context_read(ContextCalling("read", n, FALSE), n)
  /\ ContextFrame

ContextWrite ==
  /\ context.calls < MaxContextCalls
  /\ \E n \in ContextNames, content \in Values :
       context' = context_write(ContextCalling("write", n, FALSE), n, content)
  /\ ContextFrame

\* The child process writes to a temporary file whose path it was given.
ChildWrites ==
  /\ context.calls < MaxContextCalls
  /\ \E n \in ContextNames, content \in Values :
       /\ context.temp_files_for_mem[n] # 0
       /\ context' = [ContextCalling("child", n, FALSE) EXCEPT
                        !.tmp[context.temp_files_for_mem[n]] =
                           [mtime |-> context.now + 1, content |-> content]]
  /\ ContextFrame

ResolveMemFiles ==
  /\ context.calls < MaxContextCalls
  /\ context' = context_resolve_mem_files(
                  ContextCalling("resolve_mem_files", None, FALSE))
  /\ ContextFrame

ContextInit ==
  /\ Idleness
  /\ hasher = NoHasher /\ tester = NoTester
  /\ directories = NoDirectories /\ loader = NoLoader
  /\ mapping = NoMapping /\ rule = NoRule /\ commands = NoCommands
  /\ \E f \in [ContextNames -> {NoFile, [mtime |-> 1, content |-> "x"]}] :
       context = [NoContext EXCEPT !.files = f, !.now = 2]

ContextNext ==
  GetDiskPath \/ ContextRead \/ ContextWrite \/ ChildWrites \/ ResolveMemFiles

ContextSpec == ContextInit /\ [][ContextNext]_vars

C36_WitnessSamePath ==
  /\ context.op = "get_disk_path"
  /\ context.made = 1
  /\ context.path = TempPath(1)
  /\ context.tmp[1].content = "y"


\* ------------------------------------------------ the working-dir mapping
\* _WorkingDirMapping on its own: mapping.env_dir is the VirtualDirectory of
\* env/, mapping.configured_env the names read from $config by __init__,
\* mapping.environ is os.environ.

\* __update_env: env_name of a filename below env/.
EnvNameOf(filename) ==
  IF Len(filename) = 2 /\ filename[1] = "set" THEN filename[2] ELSE filename[1]

\* __update_env: the value the file is to hold.
EnvValue(m, filename) ==
  IF Len(filename) = 2 /\ filename[1] = "set"
  THEN IF m.environ[EnvNameOf(filename)] # None THEN "true" ELSE "false"
  ELSE IF m.environ[EnvNameOf(filename)] # None
       THEN m.environ[EnvNameOf(filename)] ELSE ""

\* A variant of __update_env that writes the file at every access.
update_env_always(m, filename) ==
  IF EnvNameOf(filename) \in m.configured_env THEN m
  ELSE [m EXCEPT !.env_dir = write(@, filename, EnvValue(m, filename), m.now)]

\* _WorkingDirMapping.__update_env(filename)
update_env(m, filename) ==
  IF EnvNameOf(filename) \in m.configured_env THEN m
  ELSE IF \/ ~Exists(m.env_dir[filename])
          \/ m.env_dir[filename].content # EnvValue(m, filename)
  THEN \* Value has changed.  Update.
       [m EXCEPT !.env_dir = write(@, filename, EnvValue(m, filename), m.now)]
  ELSE m

MappingFrame ==
  UNCHANGED <<builderVars, runnerVars, hasher, tester, directories, loader,
              context, rule, commands>>

\* _WorkingDirMapping.map("env/" + filename), called by every method of the
\* MappedDirectory, at the next tick of the clock.
Map ==
  /\ mapping.calls < MaxCalls
  /\ \E filename \in EnvFilenames :
       mapping' = update_env([mapping EXCEPT !.calls = @ + 1, !.now = @ + 1,
                                             !.filename = filename],
                             filename)
  /\ MappingFrame

\* The process environment changes between two accesses.
Putenv ==
  /\ \E v \in EnvNames, value \in Values \cup {None} :
       /\ mapping.environ[v] # value
       /\ mapping' = [mapping EXCEPT !.environ[v] = value]
  /\ MappingFrame

\* What an earlier run or the configure command left in the env directory
\* for one variable: nothing, a set variable, an unset variable.
StoredEnv ==
  {[value |-> NoFile, set |-> NoFile],
   [value |-> [mtime |-> 1, content |-> "x"],
    set |-> [mtime |-> 1, content |-> "true"]],
   [value |-> [mtime |-> 1, content |-> ""],
    set |-> [mtime |-> 1, content |-> "false"]]}

MappingInit ==
  /\ Idleness
  /\ hasher = NoHasher /\ tester = NoTester
  /\ directories = NoDirectories /\ loader = NoLoader
  /\ context = NoContext /\ rule = NoRule /\ commands = NoCommands
  /\ \E stored \in [EnvNames -> StoredEnv], locked \in SUBSET EnvNames,
        env \in [EnvNames -> Values \cup {None}] :
       mapping = [NoMapping EXCEPT
                    !.env_dir = [f \in EnvFilenames |->
                                   IF Len(f) = 2 THEN stored[f[2]].set
                                   ELSE stored[f[1]].value],
                    !.configured_env = locked,
                    !.environ = env,
                    !.now = 2]

MappingNext == Map \/ Putenv

MappingSpec == MappingInit /\ [][MappingNext]_vars

\* C37: at every access to env/NAME or env/set/NAME through the mapping the
\* env directory is left as it is if NAME is locked; otherwise the file then
\* holds the variable's current value (empty if unset), respectively "true"
\* or "false", its mtime is the time of the access if the stored value
\* differed or the file did not exist and is unchanged if not, and no other
\* file changes.
C37_EnvFilesFollowEnvironment ==
  [][mapping'.calls # mapping.calls =>
       LET f == mapping'.filename
           v == IF Len(f) = 2 THEN f[2] ELSE f[1]
           value == IF Len(f) = 2
                    THEN IF mapping.environ[v] = None THEN "false" ELSE "true"
                    ELSE IF mapping.environ[v] = None THEN ""
                         ELSE mapping.environ[v]
       IN IF v \in mapping.configured_env
          THEN mapping'.env_dir = mapping.env_dir
          ELSE /\ mapping'.env_dir[f].content = value
               /\ IF Exists(mapping.env_dir[f]) /\ mapping.env_dir[f].content = value
                  THEN mapping'.env_dir[f] = mapping.env_dir[f]
                  ELSE mapping'.env_dir[f].mtime = mapping'.now
               /\ \A g \in EnvFilenames \ {f} :
                    mapping'.env_dir[g] = mapping.env_dir[g]]_vars

\* The value file of V was rewritten at the second access because the
\* variable had changed; the first access had left its mtime alone.
C37_Witness ==
  /\ mapping.calls = 2
  /\ mapping.filename = <<"V">>
  /\ "V" \notin mapping.configured_env
  /\ mapping.env_dir[<<"V">>] = [mtime |-> mapping.now, content |-> "y"]
  /\ mapping.env_dir[<<"set", "V">>].mtime = 1

\* A locked variable was accessed while the environment held another value.
C37_WitnessLocked ==
  /\ mapping.calls > 0
  /\ mapping.filename = <<"W">>
  /\ "W" \in mapping.configured_env
  /\ mapping.environ["W"] = "y"
  /\ mapping.env_dir[<<"W">>].content = "x"

\* An access that found the stored value current and left the mtime alone.
C37_WitnessUnchanged ==
  /\ mapping.calls > 0
  /\ mapping.filename = <<"set", "V">>
  /\ "V" \notin mapping.configured_env
  /\ mapping.environ["V"] = None
  /\ mapping.env_dir[<<"set", "V">>] = [mtime |-> 1, content |-> "false"]


\* ------------------------------------------- the commands on their own
\* ConditionalCommand and EnvironmentCommand applied to inputs of every
\* kind.  commands.content is the content of the artifact t, the condition
\* of the one and the default artifact of the other; commands.readable says
\* whether t is clean when the commands are enumerated; commands.env is the
\* value of the variable, None if it is not set.
CommandContents == {"true", "false", "true\n"}

\* if t: o1 -> k1  [else: i -> k2]
TestedConditional(has_else) ==
  ConditionalCommand("t", SubprocessCommand(<<"o1">>, <<"k1">>),
                     IF has_else THEN SubprocessCommand(<<"i">>, <<"k2">>)
                     ELSE NoCommand)

\* $V -> eo, with a default
TestedEnvironment(default) ==
  [EnvironmentCommand("V", "eo") EXCEPT !.default = default]

\* The files the commands run on: t, o1 and i exist.
CommandFiles(content) ==
  [n \in RunnerArtifacts \cup {"t"} |->
     IF n = "t" THEN [mtime |-> 1, content |-> content]
     ELSE IF n \in {"o1", "i"} THEN [mtime |-> 1, content |-> "x"]
     ELSE NoFile]

\* The state map and the directory in which t is known, and dirty unless it
\* is readable.
CommandStateMap(readable) ==
  [EmptyStateMap EXCEPT !.art["t"] =
     [known |-> TRUE, timestamp |-> 1, is_dirty |-> ~readable]]

CommandDirectory(content) ==
  [mtime |-> [a \in Artifacts |-> 1], content |-> [a \in {"t"} |-> content],
   sebs_mtime |-> ResetTime, context_timestamp |-> ResetTime]

\* EnvironmentCommand.enumerate_artifacts; env is what enumerator.getenv
\* returns.
EnvironmentEnumerated(cmd, env) ==
  [inputs |-> IF cmd.default.kind = "artifact" /\ env = None
              THEN <<cmd.default.value>> ELSE <<>>,
   outputs |-> <<cmd.output_artifact>>]

\* What EnvironmentCommand.run writes to the log.
EnvironmentLog(cmd, env) ==
  IF env = None /\ cmd.default.kind = "none"
  THEN "Environment variable not set: " \o cmd.env_name \o "\n"
  ELSE ""

\* The outcome of a run (r) on the files fs.
CommandRan(op, outcome, fs, r, log) ==
  commands' = [commands EXCEPT
                 !.op = op, !.outcome = outcome, !.result = r.result,
                 !.written = {n \in DOMAIN fs : r.files[n] # fs[n]},
                 !.value = r.files["eo"].content, !.log = log]

\* The outcome of an enumeration (e).
CommandEnumerated(op, e) ==
  commands' = [commands EXCEPT !.op = op, !.inputs = e.inputs,
                               !.outputs = e.outputs]

CommandsFrame ==
  UNCHANGED <<builderVars, runnerVars, hasher, tester, directories, loader,
              context, mapping, rule>>

RunConditional ==
  /\ commands.op = None
  /\ \E outcome \in {"true", "false"} :
       CommandRan("run_conditional", outcome, CommandFiles(commands.content),
                  CommandRun(TestedConditional(commands.has_else),
                             CommandFiles(commands.content), commands.env,
                             Now, outcome, {"k1", "k2"}),
                  "")
  /\ CommandsFrame

EnumerateConditional ==
  /\ commands.op = None
  /\ CommandEnumerated("enumerate_conditional",
       enumerate_artifacts(CommandStateMap(commands.readable),
                           CommandDirectory(commands.content),
                           TestedConditional(commands.has_else)))
  /\ CommandsFrame

RunEnvironment ==
  /\ commands.op = None
  /\ CommandRan("run_environment", "true", CommandFiles(commands.content),
                CommandRun(TestedEnvironment(commands.default),
                           CommandFiles(commands.content), commands.env,
                           Now, "true", {}),
                EnvironmentLog(TestedEnvironment(commands.default),
                               commands.env))
  /\ CommandsFrame

EnumerateEnvironment ==
  /\ commands.op = None
  /\ CommandEnumerated("enumerate_environment",
       EnvironmentEnumerated(TestedEnvironment(commands.default),
                             commands.env))
  /\ CommandsFrame

CommandsInit ==
  /\ Idleness
  /\ hasher = NoHasher /\ tester = NoTester
  /\ directories = NoDirectories /\ loader = NoLoader
  /\ context = NoContext /\ mapping = NoMapping /\ rule = NoRule
  /\ \E content \in CommandContents, readable, has_else \in BOOLEAN,
        env \in {None, "", "x"},
        default \in {NoDefault, [kind |-> "string", value |-> "d"],
                     [kind |-> "artifact", value |-> "t"]} :
       commands = [NoCommands EXCEPT !.content = content,
                                     !.readable = readable,
                                     !.has_else = has_else,
                                     !.env = env, !.default = default]

CommandsNext ==
  \/ RunConditional
  \/ EnumerateConditional
  \/ RunEnvironment
  \/ EnumerateEnvironment

CommandsSpec == CommandsInit /\ [][CommandsNext]_vars

\* C38: ConditionalCommand.run executes the then-command if and only if the
\* condition artifact's content is "true", the else-command if and only if
\* it is "false" and there is one, returns true without running anything for
\* "false" without else-command and false for any other content;
\* enumerate_artifacts reports the condition as (first) input and, if the
\* condition is readable, the inputs and outputs of the branch that run
\* executes for that content, and nothing else if it is not readable.
C38_ConditionalCommand ==
  /\ commands.op = "run_conditional" =>
       /\ "k1" \in commands.written <=> commands.content = "true"
       /\ "k2" \in commands.written <=>
            commands.content = "false" /\ commands.has_else
       /\ commands.written \subseteq {"k1", "k2"}
       /\ commands.result =
            IF \/ commands.content = "true"
               \/ commands.content = "false" /\ commands.has_else
            THEN commands.outcome
            ELSE IF commands.content = "false" THEN "true" ELSE "false"
  /\ commands.op = "enumerate_conditional" =>
       /\ commands.inputs # <<>> /\ commands.inputs[1] = "t"
       /\ IF commands.readable /\ commands.content = "true"
          THEN commands.inputs = <<"t", "o1">> /\ commands.outputs = <<"k1">>
          ELSE IF commands.readable /\ commands.content = "false"
                  /\ commands.has_else
          THEN commands.inputs = <<"t", "i">> /\ commands.outputs = <<"k2">>
          ELSE commands.inputs = <<"t">> /\ commands.outputs = <<>>
       /\ commands.readable =>
            EnumeratedArtifacts(TestedConditional(commands.has_else),
                                CommandFiles(commands.content))
              = [inputs |-> commands.inputs, outputs |-> commands.outputs]

\* The condition held something else and run returned false.
C38_Witness ==
  /\ commands.op = "run_conditional"
  /\ commands.content = "true\n"
  /\ commands.outcome = "true"
  /\ commands.result = "false"
  /\ commands.written = {}

\* The else-command ran.
C38_WitnessElse ==
  /\ commands.op = "run_conditional"
  /\ commands.content = "false"
  /\ commands.written = {"k2"}

\* The condition was not readable when the command was enumerated.
C38_WitnessUnreadable ==
  /\ commands.op = "enumerate_conditional"
  /\ ~commands.readable
  /\ commands.content = "true"
  /\ commands.inputs = <<"t">>

\* C39: EnvironmentCommand.run writes the variable's value to the output if
\* the variable is set; if it is not set it writes the default string or the
\* content of the default artifact; without default it returns false, writes
\* a diagnostic to the log and does not write the output.
\* enumerate_artifacts reports the default artifact as input exactly when
\* the variable is not set, and the output always.
C39_EnvironmentCommand ==
  /\ commands.op = "run_environment" =>
       IF commands.env # None
       THEN /\ commands.result = "true" /\ commands.written = {"eo"}
            /\ commands.value = commands.env /\ commands.log = ""
       ELSE IF commands.default.kind = "string"
       THEN /\ commands.result = "true" /\ commands.written = {"eo"}
            /\ commands.value = commands.default.value /\ commands.log = ""
       ELSE IF commands.default.kind = "artifact"
       THEN /\ commands.result = "true" /\ commands.written = {"eo"}
            /\ commands.value = commands.content /\ commands.log = ""
       ELSE /\ commands.result = "false" /\ commands.written = {}
            /\ commands.log # ""
  /\ commands.op = "enumerate_environment" =>
       /\ commands.outputs = <<"eo">>
       /\ commands.inputs =
            IF commands.default.kind = "artifact" /\ commands.env = None
            THEN <<"t">> ELSE <<>>

\* The variable was not set and the default artifact's content was written.
C39_Witness ==
  /\ commands.op = "run_environment"
  /\ commands.env = None
  /\ commands.default.kind = "artifact"
  /\ commands.value = "true\n"

\* The variable was not set and there was no default.
C39_WitnessNoDefault ==
  /\ commands.op = "run_environment"
  /\ commands.env = None
  /\ commands.default.kind = "none"
  /\ commands.result = "false"

\* The default artifact was reported as input.
C39_WitnessInput ==
  /\ commands.op = "enumerate_environment"
  /\ commands.inputs = <<"t">>


\* ---------------------------------------------------------- rule expansion
\* Rule.expand_once on its own.  rule.deps[r] are the rules on which r's
\* _expand calls expand_once, in order; the _expand of a rule in rule.fails
\* raises an exception of its own at its end; rule.expanded[r] is
\* r.__expanded ("none" for None); rule.expands[r] counts the calls of
\* r._expand; rule.reentered holds the rules at which the last call raised
\* "Rule cyclically depends on self".
RECURSIVE expand_once(_, _), rule_expand(_, _, _)

\* A variant of expand_once that resets __expanded after _expand.
ExpandReturnedReset(r, st) ==
  IF st.raised THEN st ELSE [st EXCEPT !.expanded[r] = "false"]

\* expand_once after self._expand(self.__args): "self.__expanded = True",
\* not reached if _expand raised.
ExpandReturned(r, st) ==
  IF st.raised THEN st ELSE [st EXCEPT !.expanded[r] = "true"]

\* Rule.expand_once
expand_once(st, r) ==
  IF st.expanded[r] = "none"
  THEN [st EXCEPT !.raised = TRUE, !.reentered = @ \cup {r}]
  ELSE IF st.expanded[r] = "false"
  THEN ExpandReturned(r,
         rule_expand([st EXCEPT !.expanded[r] = "none", !.expands[r] = @ + 1],
                     r, 1))
  ELSE st

\* r._expand from its k-th dependency on: expand_once on each direct
\* dependency; an exception ends it.
rule_expand(st, r, k) ==
  IF st.raised THEN st
  ELSE IF k > Len(st.deps[r])
  THEN IF r \in st.fails THEN [st EXCEPT !.raised = TRUE] ELSE st
  ELSE rule_expand(expand_once(st, st.deps[r][k]), r, k + 1)

\* builder.add_rule, add_test or a script calls rule.expand_once().
ExpandOnce ==
  /\ rule.calls < MaxCalls
  /\ \E r \in Rules :
       rule' = expand_once([rule EXCEPT !.calls = @ + 1, !.called = r,
                                        !.raised = FALSE, !.reentered = {}],
                           r)
  /\ UNCHANGED <<builderVars, runnerVars, hasher, tester, directories, loader,
                 context, mapping, commands>>

\* The dependency lists of a rule: up to two rules, repeated or not.
DepLists ==
  {<<>>} \cup {<<a>> : a \in Rules} \cup {<<a, b>> : a, b \in Rules}

RuleInit ==
  /\ Idleness
  /\ hasher = NoHasher /\ tester = NoTester
  /\ directories = NoDirectories /\ loader = NoLoader
  /\ context = NoContext /\ mapping = NoMapping /\ commands = NoCommands
  /\ \E deps \in [Rules -> DepLists], fails \in {{}} \cup {{r} : r \in Rules} :
       rule = [NoRule EXCEPT !.deps = deps, !.fails = fails]

RuleNext == ExpandOnce

RuleSpec == RuleInit /\ [][RuleNext]_vars

\* The rules that the expansion of r visits through rules that were never
\* expanded (r included).
Visited(st, r) ==
  LET RECURSIVE Closure(_)
      Closure(S) ==
        LET T == S \cup {q \in Rules :
                           \E p \in S : /\ st.expanded[p] = "false"
                                        /\ q \in Range(st.deps[p])}
        IN IF T = S THEN S ELSE Closure(T)
  IN Closure({r})

\* Rule q depends on itself through the dependency lists.
OnCycle(st, q) ==
  \E p \in Rules : q \in Range(st.deps[p]) /\ p \in Visited(st, q) 

C40_WitnessLater ==
  /\ rule.calls = 2
  /\ rule.called = "r1"
  /\ rule.deps["r1"] = <<"r2", "r2">> /\ rule.deps["r2"] = <<>>
  /\ rule.expanded["r1"] = "true"
  /\ rule.expands = [q \in Rules |-> IF q = "r3" THEN 0 ELSE 1]
  /\ ~rule.raised

\* A call on a rule that an aborted expansion left at None.
C40_WitnessAborted ==
  /\ rule.calls = 2
  /\ rule.called = "r1"
  /\ rule.deps["r1"] = <<>> /\ rule.fails = {"r1"}
  /\ rule.expanded["r1"] = "none"
  /\ rule.raised /\ rule.reentered = {"r1"}

====
